---- MODULE Spec2Model ----
(***************************************************************************)
(* Model of the Feishu channel adapter.                                    *)
(*                                                                         *)
(* Part 1: the connection supervisor, monitorFeishuProvider of             *)
(* src/unnamed/part_001 (the monitor with the idle watchdog and the        *)
(* coalesced restart).  One account, one event loop.  Every action is one  *)
(* run-to-completion step of the JavaScript event loop: the code between   *)
(* two awaits, together with the promise reactions (catch / finally) that  *)
(* run as microtasks right behind it.                                      *)
(*                                                                         *)
(* Time is in whole seconds (now); the backoff delay is in milliseconds.   *)
(*                                                                         *)
(* Part 2: the policy helpers of src/extensions/feishu/src/policy.ts as    *)
(* operators, applied to inputs drawn from bounded sets (SpecPolicy).      *)
(* Strings are sequences of tokens: a prefix such as "feishu:" is one      *)
(* token, so is a blank, the wildcard and every other character.           *)
(*                                                                         *)
(* Part 3: handleFeishuMessage of src/unnamed/part_001, the admission of   *)
(* inbound events.  Every handler instance is an async function; an action *)
(* is the code of one instance between two awaits (SpecAdmit: one event    *)
(* under every configuration; SpecPairing: concurrent direct messages).    *)
(*                                                                         *)
(* Part 4: persistFeishuSenderBinding, the calls for several senders       *)
(* interleaved at their awaits (SpecBinding).                              *)
(*                                                                         *)
(* Part 5: deliverFeishuReply of src/unnamed/part_001 and sendChunkedText  *)
(* of src/extensions/feishu/src/accounts.ts over sendTextFeishu            *)
(* (SpecDelivery).                                                         *)
(*                                                                         *)
(* Part 6: handleFeishuMessage behind the admission: the status reaction   *)
(* or status text, the dispatch and its deliveries (SpecReply).            *)
(*                                                                         *)
(* Part 7: the "im.message.receive_v1" callback and the handler promises   *)
(* it starts, beside the supervisor of part 1 (SpecInbound).               *)
(*                                                                         *)
(* Part 8: computeBackoff applied to every attempt and random draw         *)
(* (SpecBackoff).                                                          *)
(*                                                                         *)
(* Part 9: the supervisor of part 1 over unbounded time, with a relative   *)
(* clock and the fairness of the event loop (SpecProgress).                *)
(***************************************************************************)
EXTENDS Integers, Sequences, FiniteSets, TLC

VARIABLES
    \* inputs of monitorFeishuProvider (fixed once chosen)
    configured,          \* account.configured
    cfgIdle,             \* account.config.wsIdleTimeoutSeconds: <<>> = not a number, <<v>> = v
    cfgWatchdog,         \* account.config.wsWatchdogIntervalSeconds, same encoding
    \* the envelope of the exploration (fixed once chosen)
    horizon,             \* time does not advance beyond this
    failLimit,           \* at most this many connects fail
    fineLimit,           \* at most this many Grain-sized time steps
    \* environment
    now,                 \* Date.now(), in seconds
    aborted,             \* abortSignal.aborted
    startPromise,        \* the start() promise of the client created last
    startedAt,           \* when that start() was called
    clientsCreated,      \* number of createWsClient() calls so far
    \* monitorFeishuProvider
    mainPc,              \* position of the async function body
    onAbortRegistered,   \* abortSignal listener onAbort is registered
    handlerRegistered,   \* dispatcher.register() has run
    stopped,
    wsClient,            \* 0 = null, else the number of the client it refers to
    watchdogTimer,       \* TRUE = setInterval timer armed
    nextTickAt,          \* when the armed interval timer fires next
    lastInboundAt,
    reconnectAttempts,
    restartInFlight,     \* TRUE = the promise of a restart, FALSE = null
    restartQueued,
    bodies,              \* the restart bodies (async IIFEs) that have not finished
    \* status surface (statusSink patches)
    connected,
    running,
    \* history
    abortedAtCall,       \* the signal was already aborted when the function was called
    delayMs,             \* delayMs of the restart body started last
    restartsStarted,     \* number of restart bodies started
    idleRequests,        \* number of requestRestart("idle-timeout") calls
    failures,            \* number of failed connects so far
    fineSteps,           \* number of Grain-sized time steps taken
    \* the policy helpers (part 2)
    pIn,                 \* the arguments a helper is applied to
    pOut,                \* << >> before the call, << result >> after it
    \* handleFeishuMessage (part 3)
    acct,                \* account.config and config, as far as the admission reads them
    traffic,             \* the events that arrive: how many and of which kind
    store,               \* the persisted pairing allow-store (readAllowFromStore)
    pending,             \* the senders with a pairing request (upsertPairingRequest)
    hs,                  \* the handler instances, in the order of arrival
    \* persistFeishuSenderBinding (part 4)
    bLoad,               \* the calls that arrive: how many
    bFile,               \* the stored config (loadConfig / writeConfigFile)
    bCache,              \* AUTO_BINDING_CACHE
    bInFlight,           \* AUTO_BINDING_IN_FLIGHT
    bCalls,              \* the calls of persistFeishuSenderBinding, in the order of arrival
    bWrites,             \* per sender, the writeConfigFile calls that completed
    \* deliverFeishuReply and sendChunkedText (part 5)
    dCall,               \* the call: the function, the chunks, the account, the signal
    dPc,                 \* position of the async function
    dAborted,            \* signal.aborted
    dLog,                \* the sendTextFeishu calls that reached im.message.create
    dStatus,             \* the status surface (statusSink patches)
    dActivity,           \* activity.record({ direction: "outbound" }) calls
    dResult,             \* << >> pending, else how the promise of the call settled
    \* handleFeishuMessage behind the admission (part 6)
    rs,                  \* the handler of one admitted event: configuration, position, closures
    \* the "im.message.receive_v1" callback and the handlers it starts (part 7)
    inb                  \* the handleFeishuMessage promises and what their failures left

vars == << configured, cfgIdle, cfgWatchdog, horizon, failLimit, fineLimit, now, aborted, startPromise, startedAt,
           clientsCreated, mainPc, onAbortRegistered, handlerRegistered, stopped,
           wsClient, watchdogTimer, nextTickAt, lastInboundAt, reconnectAttempts,
           restartInFlight, restartQueued, bodies, connected, running,
           abortedAtCall, delayMs, restartsStarted, idleRequests, failures,
           fineSteps, pIn, pOut, acct, traffic, store, pending, hs,
           bLoad, bFile, bCache, bInFlight, bCalls, bWrites,
           dCall, dPc, dAborted, dLog, dStatus, dActivity, dResult, rs, inb >>

----------------------------------------------------------------------------
(* Bounds of the model *)

\* the supervisor is observed for its idle timeout plus this many seconds
HorizonSlack == 25
\* time advances to the next timer deadline, or by Grain seconds, the latter at
\* most MaxFineSteps times
Grain == 10
MaxFineSteps == 2
\* Math.random() is drawn from {0, 1/RandomDen, .., (RandomDen-1)/RandomDen}
RandomDen == 2
\* at most this many connects (startWsClient calls) fail
MaxFailures == 3
\* computeBackoff is tabulated for the attempts 1 .. MaxAttempt
MaxAttempt == 8

(* Program constants *)

DEFAULT_WS_IDLE_TIMEOUT_SECONDS == 1200
initialMs == 2000
maxMs == 30000
factorTenths == 18
jitterPercent == 25
StartTimeoutSeconds == 5
WatchdogMinSeconds == 15
WatchdogMaxSeconds == 60

Max(a, b) == IF a >= b THEN a ELSE b
Min(a, b) == IF a <= b THEN a ELSE b
CeilDiv(a, b) == (a + b - 1) \div b

\* the configurations explored: << wsIdleTimeoutSeconds, wsWatchdogIntervalSeconds >>
Configs == { << <<60>>, <<20>> >>,
             << <<0>>, <<20>> >>, << <<0>>, <<>> >>,
             << <<0 - 1>>, <<>> >>, << <<>>, <<>> >> }

----------------------------------------------------------------------------
(* Pure helpers *)

resolveWsIdleTimeoutSeconds(cfg) ==
    IF Len(cfg) = 1 /\ cfg[1] >= 0 THEN cfg[1] ELSE DEFAULT_WS_IDLE_TIMEOUT_SECONDS

resolveWsWatchdogIntervalSeconds(cfg, idleSeconds) ==
    IF Len(cfg) = 1 /\ cfg[1] > 0 THEN cfg[1]
    ELSE IF idleSeconds <= 0 THEN 0
    ELSE Max(WatchdogMinSeconds, Min(WatchdogMaxSeconds, idleSeconds \div 3))

idleTimeoutSeconds == resolveWsIdleTimeoutSeconds(cfgIdle)
watchdogIntervalSeconds == resolveWsWatchdogIntervalSeconds(cfgWatchdog, idleTimeoutSeconds)

\* policy.initialMs * policy.factor ** k, in tenths of a millisecond.  Exact up
\* to the first value above maxMs (2000, 3600, 6480, 11664, 20995.2, 37791.36);
\* from there on the value only has to stay above maxMs, so it is kept.
RECURSIVE BaseTenths(_)
BaseTenths(k) ==
    IF k <= 0 THEN initialMs * 10
    ELSE LET p == BaseTenths(k - 1)
         IN  IF p >= maxMs * 10 THEN p ELSE (p * factorTenths) \div 10

\* mutant: the cap is applied to the base and the jitter is added on top
computeBackoffCapBase(attempt, rn, rden) ==
    LET base == Min(maxMs * 10, BaseTenths(Max(attempt - 1, 0)))
        num  == base * (100 * rden + jitterPercent * rn)
        den  == 1000 * rden
    IN  (2 * num + den) \div (2 * den)

\* computeBackoff(policy, attempt) with Math.random() = rn / rden
computeBackoffAt(attempt, rn, rden) ==
    LET base == BaseTenths(Max(attempt - 1, 0))
        \* base + base * jitter * random = num / den milliseconds
        num  == base * (100 * rden + jitterPercent * rn)
        den  == 1000 * rden
        rounded == (2 * num + den) \div (2 * den)      \* Math.round
    IN  Min(maxMs, rounded)

\* computeBackoff(policy, attempt) with Math.random() = rn / RandomDen
computeBackoff(attempt, rn) == computeBackoffAt(attempt, rn, RandomDen)

RandomDraws == 0 .. (RandomDen - 1)

----------------------------------------------------------------------------
(* The closure state of monitorFeishuProvider as one record, so that the    *)
(* closures stop, startWsClient, requestRestart and ensureWatchdog can be   *)
(* composed the way the code calls one from the other.                      *)

S == [ aborted |-> aborted, startPromise |-> startPromise, startedAt |-> startedAt,
       clientsCreated |-> clientsCreated, stopped |-> stopped, wsClient |-> wsClient,
       watchdogTimer |-> watchdogTimer, nextTickAt |-> nextTickAt,
       lastInboundAt |-> lastInboundAt, reconnectAttempts |-> reconnectAttempts,
       restartInFlight |-> restartInFlight, restartQueued |-> restartQueued,
       bodies |-> bodies, connected |-> connected, running |-> running,
       delayMs |-> delayMs, restartsStarted |-> restartsStarted ]

Set(s) ==
    /\ aborted' = s.aborted
    /\ startPromise' = s.startPromise
    /\ startedAt' = s.startedAt
    /\ clientsCreated' = s.clientsCreated
    /\ stopped' = s.stopped
    /\ wsClient' = s.wsClient
    /\ watchdogTimer' = s.watchdogTimer
    /\ nextTickAt' = s.nextTickAt
    /\ lastInboundAt' = s.lastInboundAt
    /\ reconnectAttempts' = s.reconnectAttempts
    /\ restartInFlight' = s.restartInFlight
    /\ restartQueued' = s.restartQueued
    /\ bodies' = s.bodies
    /\ connected' = s.connected
    /\ running' = s.running
    /\ delayMs' = s.delayMs
    /\ restartsStarted' = s.restartsStarted

RemoveAt(seq, i) == [ j \in 1 .. (Len(seq) - 1) |-> IF j < i THEN seq[j] ELSE seq[j + 1] ]

\* const stop = (reason) => { ... }
stop(s) ==
    IF s.stopped THEN s
    ELSE [ s EXCEPT !.stopped = TRUE,
                    !.connected = FALSE,
                    !.running = FALSE,
                    !.watchdogTimer = FALSE,     \* clearInterval, when armed
                    !.wsClient = 0 ]             \* and client.stop() / close() is called

\* startWsClient, up to its await: create the client, call start(), patch the status
startWsClientBegin(s, t) ==
    [ s EXCEPT !.clientsCreated = s.clientsCreated + 1,
               !.wsClient = s.clientsCreated + 1,
               !.connected = TRUE,
               !.startPromise = "pending",
               !.startedAt = t ]

\* mutant: the 5 s timer settles the race as a failure
StartOutcomeTimeoutFails(s, t) ==
    IF s.startPromise = "rejected" THEN "failed"
    ELSE IF s.startPromise = "resolved" THEN "ok"
    ELSE IF t >= s.startedAt + StartTimeoutSeconds THEN "failed"
    ELSE "waiting"

\* what Promise.race([startPromise, 5 s timer]) has settled to at time t
StartOutcome(s, t) ==
    IF s.startPromise = "rejected" THEN "failed"
    ELSE IF s.startPromise = "resolved" THEN "ok"
    ELSE IF t >= s.startedAt + StartTimeoutSeconds THEN "ok"      \* timedOut
    ELSE "waiting"

\* mutant: the status is patched to connected behind the race
startWsClientEndPatchesConnected(s, t) ==
    [ s EXCEPT !.connected = StartOutcome(s, t) # "failed" ]

\* startWsClient, after its await: TRUE = started
startWsClientEnd(s, t) ==
    IF StartOutcome(s, t) = "failed" THEN [ s EXCEPT !.connected = FALSE ] ELSE s

\* mutant: the restart body leaves the old client alone
RestartBodyBeginKeepsClient(s, reason, rn, t) ==
    LET attempt == s.reconnectAttempts + 1
        d == computeBackoff(attempt, rn)
        body == [ pc |-> "sleeping", reason |-> reason, delayMs |-> d,
                  wakeAt |-> t + CeilDiv(d, 1000) ]
    IN  [ s EXCEPT !.reconnectAttempts = attempt,
                   !.delayMs = d,
                   !.connected = FALSE,
                   !.restartInFlight = TRUE,
                   !.restartsStarted = s.restartsStarted + 1,
                   !.bodies = Append(s.bodies, body) ]

\* the restart body (the async IIFE of requestRestart) up to its first await
RestartBodyBegin(s, reason, rn, t) ==
    LET attempt == s.reconnectAttempts + 1
        d == computeBackoff(attempt, rn)
        body == [ pc |-> IF s.wsClient # 0 THEN "stopping" ELSE "sleeping",
                  reason |-> reason,
                  delayMs |-> d,
                  wakeAt |-> t + CeilDiv(d, 1000) ]
    IN  [ s EXCEPT !.reconnectAttempts = attempt,
                   !.delayMs = d,
                   !.connected = FALSE,
                   !.wsClient = 0,               \* and client.stop() is called and awaited
                   !.restartInFlight = TRUE,
                   !.restartsStarted = s.restartsStarted + 1,
                   !.bodies = Append(s.bodies, body) ]

\* mutant: a restart in flight does not hold back a second one
requestRestartNoCoalesce(s, reason, rn, t) ==
    IF s.stopped \/ s.aborted THEN s ELSE RestartBodyBegin(s, reason, rn, t)

\* const requestRestart = (reason) => { ... }
requestRestart(s, reason, rn, t) ==
    IF s.stopped \/ s.aborted THEN s
    ELSE IF s.restartInFlight THEN [ s EXCEPT !.restartQueued = TRUE ]
    ELSE RestartBodyBegin(s, reason, rn, t)

\* mutant: .finally leaves the queued flag to the restart it requests
RestartFinallyKeepsQueued(s, i, rn, t) ==
    LET s1 == [ s EXCEPT !.bodies = RemoveAt(s.bodies, i), !.restartInFlight = FALSE ]
    IN  IF s1.restartQueued THEN requestRestart(s1, "retry", rn, t) ELSE s1

\* mutant: .finally clears the queued flag without restarting
RestartFinallyNoLoop(s, i, rn, t) ==
    [ s EXCEPT !.bodies = RemoveAt(s.bodies, i), !.restartInFlight = FALSE,
               !.restartQueued = FALSE ]

\* .finally(() => { ... }) behind restart body i
RestartFinally(s, i, rn, t) ==
    LET s1 == [ s EXCEPT !.bodies = RemoveAt(s.bodies, i), !.restartInFlight = FALSE ]
    IN  IF s1.restartQueued
        THEN requestRestart([ s1 EXCEPT !.restartQueued = FALSE ], "retry", rn, t)
        ELSE s1

\* const ensureWatchdog = () => { ... }
ensureWatchdog(s, t) ==
    IF s.watchdogTimer THEN s
    ELSE IF idleTimeoutSeconds <= 0 \/ watchdogIntervalSeconds <= 0 THEN s
    ELSE [ s EXCEPT !.watchdogTimer = TRUE, !.nextTickAt = t + watchdogIntervalSeconds ]

\* mutant: the idle check is missing, every tick of a running supervisor restarts
WatchdogFiresAlways(s, t) == ~(s.stopped \/ s.aborted)

\* mutant: the idle check is strict (idleMs <= timeout returns)
WatchdogFiresStrict(s, t) ==
    /\ ~(s.stopped \/ s.aborted)
    /\ ~((t - s.lastInboundAt) * 1000 <= idleTimeoutSeconds * 1000)

\* the setInterval callback: TRUE = it calls requestRestart("idle-timeout")
WatchdogFires(s, t) ==
    /\ ~(s.stopped \/ s.aborted)
    /\ ~((t - s.lastInboundAt) * 1000 < idleTimeoutSeconds * 1000)

----------------------------------------------------------------------------
(* Actions *)

\* no policy helper is being applied
PolicyIdle == pIn = << >> /\ pOut = << >>

InitWith(configs, slack, maxFail, maxFine) ==
    /\ configured \in BOOLEAN
    /\ \E c \in configs :
         /\ cfgIdle = c[1]
         /\ cfgWatchdog = c[2]
         /\ horizon = resolveWsIdleTimeoutSeconds(c[1]) + slack
    /\ failLimit = maxFail
    /\ fineLimit = maxFine
    /\ now = 0
    /\ aborted = FALSE
    /\ startPromise = "none"
    /\ startedAt = 0
    /\ clientsCreated = 0
    /\ mainPc = "call"
    /\ onAbortRegistered = FALSE
    /\ handlerRegistered = FALSE
    /\ stopped = FALSE
    /\ wsClient = 0
    /\ watchdogTimer = FALSE
    /\ nextTickAt = 0
    /\ lastInboundAt = 0
    /\ reconnectAttempts = 0
    /\ restartInFlight = FALSE
    /\ restartQueued = FALSE
    /\ bodies = << >>
    /\ connected = FALSE
    /\ running = FALSE
    /\ abortedAtCall = FALSE
    /\ delayMs = 0
    /\ restartsStarted = 0
    /\ idleRequests = 0
    /\ failures = 0
    /\ fineSteps = 0

\* no event is handled
HandlerIdle ==
    /\ acct = << >> /\ traffic = << >>
    /\ store = {} /\ pending = {} /\ hs = << >>

\* the senders whose bindings are persisted
BindingSenders == { "ou_1", "ou_2" }

\* the stored config, as far as persistFeishuSenderBinding reads and writes
\* it: the senders with a feishu binding of the account, the ids in agents.list
ConfigFile(bindings, agents) == [ bindings |-> bindings, agents |-> agents ]

\* persistFeishuSenderBinding is not called
BindingIdle ==
    /\ bLoad = << >> /\ bFile = << >> /\ bCache = {} /\ bInFlight = {}
    /\ bCalls = << >> /\ bWrites = << >>

bindingVars == << bLoad, bFile, bCache, bInFlight, bCalls, bWrites >>

\* deliverFeishuReply and sendChunkedText are not called
DeliveryIdle ==
    /\ dCall = << >> /\ dPc = "idle" /\ dAborted = FALSE /\ dLog = << >>
    /\ dStatus = << >> /\ dActivity = 0 /\ dResult = << >>

deliveryVars == << dCall, dPc, dAborted, dLog, dStatus, dActivity, dResult >>

\* no admitted event is being replied to
ReplyIdle == rs = << >>

\* the parts of the model behind the handler's admission
\* the event callback's handlers are not followed
InboundIdle == inb = << >>

laterParts == << bindingVars, deliveryVars, rs, inb >>
LaterIdle == BindingIdle /\ DeliveryIdle /\ ReplyIdle /\ InboundIdle

Init == PolicyIdle /\ HandlerIdle /\ LaterIdle /\ InitWith(Configs, HorizonSlack, MaxFailures, MaxFineSteps)

supervisorVars ==
    << configured, cfgIdle, cfgWatchdog, horizon, failLimit, fineLimit, now, aborted,
       startPromise, startedAt, clientsCreated, mainPc, onAbortRegistered,
       handlerRegistered, stopped, wsClient, watchdogTimer, nextTickAt, lastInboundAt,
       reconnectAttempts, restartInFlight, restartQueued, bodies, connected, running,
       abortedAtCall, delayMs, restartsStarted, idleRequests, failures, fineSteps >>

\* the other parts of the model, which the supervisor never touches
handlerVars == << acct, traffic, store, pending, hs >>
otherParts == << pIn, pOut, handlerVars, laterParts >>

\* what the actions of one part leave alone
outsideBinding == << supervisorVars, pIn, pOut, handlerVars, deliveryVars, rs, inb >>
outsideDelivery == << supervisorVars, pIn, pOut, handlerVars, bindingVars, rs, inb >>
outsideReply == << supervisorVars, pIn, pOut, handlerVars, bindingVars, deliveryVars, inb >>
outsideInbound == << pIn, pOut, handlerVars, bindingVars, deliveryVars, rs >>

Inputs == << configured, cfgIdle, cfgWatchdog, horizon, failLimit, fineLimit, otherParts >>
InputsAndSteps == << Inputs, fineSteps >>

\* a connect (startWsClient) is waiting in its Promise.race
Racing == mainPc = "startup" \/ \E i \in 1 .. Len(bodies) : bodies[i].pc = "starting"

\* mutant: the configured check is missing
PreconditionNeverFails == FALSE

\* if (!account.configured) throw ...
PreconditionFails == ~configured

\* monitorFeishuProvider is called: everything up to the await in startWsClient("startup")
Enter ==
    /\ mainPc = "call"
    /\ abortedAtCall' = aborted
    /\ IF PreconditionFails
       THEN /\ mainPc' = "threw_unconfigured"
            /\ UNCHANGED << onAbortRegistered, handlerRegistered >>
            /\ Set(S)
       ELSE /\ mainPc' = "startup"
            /\ onAbortRegistered' = TRUE
            /\ handlerRegistered' = TRUE
            /\ Set(startWsClientBegin([ S EXCEPT !.lastInboundAt = now, !.running = TRUE ], now))
    /\ UNCHANGED << InputsAndSteps, now, idleRequests, failures >>

\* the await of startWsClient("startup") returns: throw, or ensureWatchdog and wait for the abort
StartupDone ==
    /\ mainPc = "startup"
    /\ StartOutcome(S, now) # "waiting"
    /\ IF StartOutcome(S, now) = "failed"
       THEN /\ mainPc' = "threw_start"
            /\ Set(startWsClientEnd(S, now))
       ELSE /\ mainPc' = "waiting"
            /\ Set(ensureWatchdog(startWsClientEnd(S, now), now))
    /\ UNCHANGED << InputsAndSteps, now, onAbortRegistered, handlerRegistered, abortedAtCall,
                    idleRequests, failures >>

\* the abort promise has resolved: stop(), removeEventListener, return { stop }
MainReturn ==
    /\ mainPc = "waiting"
    /\ aborted
    /\ mainPc' = "returned"
    /\ onAbortRegistered' = FALSE
    /\ Set(stop(S))
    /\ UNCHANGED << InputsAndSteps, now, handlerRegistered, abortedAtCall, idleRequests,
                    failures >>

\* abortController.abort(): the listeners run, onAbort first
Abort ==
    /\ ~aborted
    /\ mainPc # "threw_unconfigured"
    /\ Set(IF onAbortRegistered THEN stop([ S EXCEPT !.aborted = TRUE ])
                                ELSE [ S EXCEPT !.aborted = TRUE ])
    /\ UNCHANGED << InputsAndSteps, now, mainPc, onAbortRegistered, handlerRegistered,
                    abortedAtCall, idleRequests, failures >>

\* the watchdog's setInterval callback
WatchdogTick ==
    /\ watchdogTimer
    /\ now >= nextTickAt
    /\ \E rn \in RandomDraws :
         LET s1 == [ S EXCEPT !.nextTickAt = nextTickAt + watchdogIntervalSeconds ]
         IN  IF WatchdogFires(S, now)
             THEN /\ Set(requestRestart(s1, "idle-timeout", rn, now))
                  /\ idleRequests' = idleRequests + 1
             ELSE /\ Set(s1)
                  /\ UNCHANGED idleRequests
    /\ UNCHANGED << InputsAndSteps, now, mainPc, onAbortRegistered, handlerRegistered,
                    abortedAtCall, failures >>

\* the "im.message.receive_v1" handler (the supervisor's part of it)
InboundEvent ==
    /\ handlerRegistered
    /\ clientsCreated > 0
    /\ Set(IF stopped \/ aborted THEN S ELSE [ S EXCEPT !.lastInboundAt = now ])
    /\ UNCHANGED << InputsAndSteps, now, mainPc, onAbortRegistered, handlerRegistered,
                    abortedAtCall, idleRequests, failures >>

\* the transport settles the start() promise of the newest client.  While a
\* connect is racing it against the 5 s timer it can only win the race up to
\* the timer's deadline.  Outside a race nothing waits for the promise: a
\* rejection reaches only the startPromise.catch handler (status lastError and
\* a log line), a fulfilment reaches nothing and is left out.
StartSettles(outcome) ==
    /\ startPromise = "pending"
    /\ Racing => now <= startedAt + StartTimeoutSeconds
    /\ ~Racing => outcome = "rejected"
    /\ Racing /\ outcome = "rejected" => failures < failLimit
    /\ startPromise' = outcome
    /\ failures' = IF Racing /\ outcome = "rejected" THEN failures + 1 ELSE failures
    /\ UNCHANGED << InputsAndSteps, now, aborted, startedAt, clientsCreated, mainPc,
                    onAbortRegistered, handlerRegistered, stopped, wsClient, watchdogTimer,
                    nextTickAt, lastInboundAt, reconnectAttempts, restartInFlight,
                    restartQueued, bodies, connected, running, abortedAtCall, delayMs,
                    restartsStarted, idleRequests >>

\* restart body i: await client.stop() returns (or throws: logged), the backoff sleep begins
ClientStopDone(i) ==
    /\ bodies[i].pc = "stopping"
    /\ bodies' = [ bodies EXCEPT ![i].pc = "sleeping",
                                 ![i].wakeAt = now + CeilDiv(bodies[i].delayMs, 1000) ]
    /\ UNCHANGED << InputsAndSteps, now, aborted, startPromise, startedAt, clientsCreated, mainPc,
                    onAbortRegistered, handlerRegistered, stopped, wsClient, watchdogTimer,
                    nextTickAt, lastInboundAt, reconnectAttempts, restartInFlight,
                    restartQueued, connected, running, abortedAtCall, delayMs,
                    restartsStarted, idleRequests, failures >>

\* mutant: the sleep is not cancelled and the shutdown is not looked at behind it
ProceedsAfterSleepUnchecked(s) == TRUE

\* restart body i after sleepWithAbort: TRUE = the body goes on to startWsClient
ProceedsAfterSleep(s) == ~(s.stopped \/ s.aborted)

\* restart body i: sleepWithAbort returns or throws "aborted"
SleepDone(i) ==
    /\ bodies[i].pc = "sleeping"
    /\ aborted \/ now >= bodies[i].wakeAt
    /\ \E rn \in RandomDraws :
         IF ProceedsAfterSleep(S)
         THEN Set([ startWsClientBegin(S, now) EXCEPT !.bodies[i].pc = "starting" ])
         ELSE Set(RestartFinally(S, i, rn, now))
    /\ UNCHANGED << InputsAndSteps, now, mainPc, onAbortRegistered, handlerRegistered,
                    abortedAtCall, idleRequests, failures >>

\* mutant: a successful reconnect does not reset reconnectAttempts
RestartBodyEndNoReset(s, t) ==
    IF StartOutcome(s, t) = "failed"
    THEN [ startWsClientEnd(s, t) EXCEPT !.restartQueued = TRUE ]
    ELSE [ startWsClientEnd(s, t) EXCEPT !.lastInboundAt = t ]

\* restart body i after startWsClient returned, up to the end of the body
RestartBodyEnd(s, t) ==
    IF StartOutcome(s, t) = "failed"
    THEN [ startWsClientEnd(s, t) EXCEPT !.restartQueued = TRUE ]
    ELSE [ startWsClientEnd(s, t) EXCEPT !.reconnectAttempts = 0, !.lastInboundAt = t ]

\* restart body i: the await of startWsClient returns; the body ends and .finally runs
StartDone(i) ==
    /\ bodies[i].pc = "starting"
    /\ StartOutcome(S, now) # "waiting"
    /\ \E rn \in RandomDraws :
         Set(RestartFinally(RestartBodyEnd(S, now), i, rn, now))
    /\ UNCHANGED << InputsAndSteps, now, mainPc, onAbortRegistered, handlerRegistered,
                    abortedAtCall, idleRequests, failures >>

\* a continuation or a timer is due now: it runs before time moves on
Urgent ==
    \/ Racing /\ StartOutcome(S, now) # "waiting"
    \/ \E i \in 1 .. Len(bodies) :
           bodies[i].pc = "sleeping" /\ (aborted \/ now >= bodies[i].wakeAt)
    \/ mainPc = "waiting" /\ aborted
    \/ watchdogTimer /\ now >= nextTickAt

Deadlines ==
    (IF watchdogTimer THEN { nextTickAt } ELSE {})
    \cup { bodies[i].wakeAt : i \in { j \in 1 .. Len(bodies) : bodies[j].pc = "sleeping" } }
    \cup (IF Racing /\ startPromise = "pending" THEN { startedAt + StartTimeoutSeconds } ELSE {})

\* the passing of time can still change what the supervisor does
TimeMatters ==
    \/ ~stopped /\ mainPc \in { "startup", "waiting" }
    \/ Racing /\ startPromise = "pending"

\* time passes: up to the next timer deadline, or by Grain seconds
Advance ==
    /\ TimeMatters
    /\ ~Urgent
    /\ \E d \in { Grain } \cup { dl - now : dl \in Deadlines } :
         /\ d > 0
         /\ now + d <= horizon
         /\ \A dl \in Deadlines : now + d <= dl
         /\ now' = now + d
         /\ fineSteps' = IF now + d \in Deadlines THEN fineSteps ELSE fineSteps + 1
         /\ fineSteps' <= fineLimit
    /\ UNCHANGED << Inputs, aborted, startPromise, startedAt, clientsCreated, mainPc,
                    onAbortRegistered, handlerRegistered, stopped, wsClient, watchdogTimer,
                    nextTickAt, lastInboundAt, reconnectAttempts, restartInFlight,
                    restartQueued, bodies, connected, running, abortedAtCall, delayMs,
                    restartsStarted, idleRequests, failures >>

Next ==
    \/ Enter
    \/ StartupDone
    \/ MainReturn
    \/ Abort
    \/ WatchdogTick
    \/ InboundEvent
    \/ StartSettles("resolved")
    \/ StartSettles("rejected")
    \/ \E i \in 1 .. Len(bodies) : ClientStopDone(i)
    \/ \E i \in 1 .. Len(bodies) : SleepDone(i)
    \/ \E i \in 1 .. Len(bodies) : StartDone(i)
    \/ Advance

Spec == Init /\ [][Next]_vars

----------------------------------------------------------------------------
(* Claims about the connection supervisor *)

\* a restart body starts in this step
BodyStarts == restartsStarted' = restartsStarted + 1

\* the supervisor has seen the shutdown: stop() has run, or the abort arrived
\* while monitorFeishuProvider was running
ShutdownSeen == stopped \/ (aborted /\ mainPc # "call" /\ ~abortedAtCall)

\* C1: for one account at most one restart body is in flight at any time, and
\* restartInFlight is set exactly while that body is: a second body never
\* starts while restartInFlight is set, whatever triggers race.
C1_AtMostOneRestartInFlight ==
    /\ Len(bodies) <= 1
    /\ restartInFlight <=> Len(bodies) = 1

\* two idle triggers and a pending retry have met one restart in flight
C1_Witness ==
    /\ Len(bodies) = 1
    /\ restartQueued
    /\ idleRequests >= 2
    /\ failures >= 1

C3_ShutdownWinsOverRestart ==
    [][ ShutdownSeen => clientsCreated' = clientsCreated ]_vars

\* the abort met a restart in flight, and that restart ended without a client
C3_Witness ==
    /\ stopped
    /\ ~abortedAtCall
    /\ restartsStarted >= 1
    /\ bodies = << >>
    /\ clientsCreated = 1

\* C4: after shutdown has completed (abort fired, monitorFeishuProvider
\* returned) no watchdog timer is armed and wsClient is null.
C4_ShutdownReleasesEverything ==
    mainPc = "returned" => (~watchdogTimer /\ wsClient = 0)

\* the watchdog's interval callback runs in this step
TickStep == watchdogTimer /\ nextTickAt' = nextTickAt + watchdogIntervalSeconds

\* requestRestart("idle-timeout") is called in this step
IdleRestartRequested == idleRequests' = idleRequests + 1

\* the running supervisor has been idle for the idle timeout
IdleTimeoutReached == ~stopped /\ ~aborted /\ now - lastInboundAt >= idleTimeoutSeconds

\* the configured wsIdleTimeoutSeconds is a number <= 0
ConfiguredNonPositive == Len(cfgIdle) = 1 /\ cfgIdle[1] <= 0

\* C5 as claimed: a tick requests a restart iff the idle timeout is reached,
\* and with a configured idle timeout <= 0 (zero or negative) none is requested.
C5_AsClaimed ==
    [][ /\ TickStep => (IdleRestartRequested <=> IdleTimeoutReached)
        /\ ConfiguredNonPositive => ~IdleRestartRequested
      ]_vars

\* C5 (amended): a watchdog tick of a running supervisor requests a restart
\* (starts one, or queues one behind the restart in flight) iff
\* now - lastInboundAt >= idleTimeoutSeconds, nothing else requests an idle
\* restart, and with a resolved idle timeout of 0 (configured 0) the watchdog is
\* never armed and never requests one.  A negative configured value resolves
\* to the default of 1200 s and is covered by the first part.
C5_WatchdogFiresIffIdle ==
    [][ /\ TickStep => (IdleRestartRequested <=> IdleTimeoutReached)
        /\ IdleRestartRequested
             => /\ TickStep
                /\ restartInFlight'
                /\ restartInFlight => (restartQueued' /\ restartsStarted' = restartsStarted)
                /\ ~restartInFlight => restartsStarted' = restartsStarted + 1
        /\ (TickStep /\ ~IdleRestartRequested)
             => (restartsStarted' = restartsStarted /\ restartQueued' = restartQueued)
        /\ idleTimeoutSeconds <= 0 => (~watchdogTimer' /\ ~IdleRestartRequested)
      ]_vars

\* a tick has just requested a restart with the idle time exactly at the timeout
C5_Witness ==
    /\ idleRequests >= 1
    /\ restartInFlight
    /\ ~stopped
    /\ now - lastInboundAt = idleTimeoutSeconds
    /\ nextTickAt = now + watchdogIntervalSeconds

\* the scenario of C6: idle timeout 60 s, watchdog interval 20 s, the supervisor
\* runs and no inbound event (and no reconnect) has refreshed lastInboundAt
\* since it was started at time 0
IdleScenario ==
    /\ cfgIdle = <<60>>
    /\ cfgWatchdog = <<20>>
    /\ mainPc = "waiting"
    /\ ~stopped /\ ~aborted
    /\ lastInboundAt = 0

\* C6: in that scenario no restart is requested before the 60 s mark, by 65 s
\* exactly one has been requested, and it was requested by the first watchdog
\* tick at or after the 60 s mark and has started the restart
\* (retries of a failed reconnect are restarts of their own, not requests).
C6_OneRestartAfterIdle ==
    IdleScenario =>
        /\ now < 60 => idleRequests = 0
        /\ now <= 65 => idleRequests <= 1
        /\ (now >= 65 /\ ~(watchdogTimer /\ now >= nextTickAt)) => idleRequests >= 1
        /\ (now <= 65 /\ idleRequests = 1)
             => /\ nextTickAt - watchdogIntervalSeconds >= 60
                /\ nextTickAt - 2 * watchdogIntervalSeconds < 60
                /\ restartsStarted >= 1
                /\ restartInFlight

\* 65 s without an inbound event: the tick at 65 s has requested the one restart
C6_Witness ==
    /\ IdleScenario
    /\ now = 65
    /\ idleRequests = 1
    /\ ~connected

\* computeBackoff over the attempts 1 .. MaxAttempt: never above maxMs, never
\* decreasing from one attempt to the next whatever the two jitter draws, and
\* at maxMs in the end
BackoffTable ==
    /\ \A a \in 1 .. MaxAttempt : \A r1 \in RandomDraws : \A r2 \in RandomDraws :
         /\ computeBackoff(a, r1) <= maxMs
         /\ computeBackoff(a, r1) <= computeBackoff(a + 1, r2)
    /\ \A r \in RandomDraws : computeBackoff(MaxAttempt, r) = maxMs

\* this step is the end of a restart body whose connect succeeded
ReconnectSucceeds ==
    \E i \in 1 .. Len(bodies) : bodies[i].pc = "starting" /\ StartOutcome(S, now) = "ok"

\* C7: the delay of a restart that follows a failed one is the delay of the
\* next attempt number and not below the previous delay (never above maxMs),
\* and the first restart after a successful reconnect is attempt 1 again, with
\* a delay in the first-attempt range initialMs .. initialMs * (1 + jitter).
C7_BackoffMonotoneAndReset ==
    [][ BodyStarts =>
          /\ reconnectAttempts' >= 1
          /\ reconnectAttempts' > 1
               => /\ reconnectAttempts' = reconnectAttempts + 1
                  /\ delayMs' >= delayMs
                  /\ delayMs' <= maxMs
          /\ reconnectAttempts' = 1
               => /\ delayMs' >= initialMs
                  /\ delayMs' * 100 <= initialMs * (100 + jitterPercent)
          /\ (reconnectAttempts = 0 \/ ReconnectSucceeds) => reconnectAttempts' = 1
          /\ BackoffTable
      ]_vars

\* the third restart is a first attempt again: a failed attempt, a successful
\* one, and the restart that was queued meanwhile
C7_Witness ==
    /\ restartsStarted >= 3
    /\ failures >= 1
    /\ Len(bodies) = 1
    /\ reconnectAttempts = 1
    /\ delayMs <= 2500

\* C8: a transport start() failure never makes monitorFeishuProvider end with
\* an error.
C8_StartFailureNeverFatal == mainPc # "threw_start"

\* C9: for an unconfigured account monitorFeishuProvider fails before it
\* creates or starts a client, registers the event handler or the abort
\* listener, arms the watchdog or patches the status, and nothing is ever
\* restarted.
C9_UnconfiguredIsFatal ==
    ~configured =>
        /\ mainPc \in { "call", "threw_unconfigured" }
        /\ clientsCreated = 0
        /\ startPromise = "none"
        /\ wsClient = 0
        /\ ~handlerRegistered
        /\ ~onAbortRegistered
        /\ ~watchdogTimer
        /\ restartsStarted = 0 /\ ~restartInFlight /\ ~restartQueued /\ bodies = << >>
        /\ ~running /\ ~connected

C9_Witness == mainPc = "threw_unconfigured"

\* the start() promise of the current client rejects while the supervisor is
\* Connected (no connect is waiting for it any more)
ErrorWhileConnected ==
    /\ connected /\ ~stopped /\ ~aborted
    /\ ~Racing
    /\ wsClient = clientsCreated
    /\ startPromise = "pending" /\ startPromise' = "rejected"

\* C10: an explicit transport error while Connected issues a restart request.
C10_ErrorWhileConnectedRestarts ==
    [][ ErrorWhileConnected => (restartInFlight' /\ ~connected') ]_vars

\* the connection state of the supervisor, in the words of the state machine:
\* Disconnected before the start and once it has terminated, Connecting while a
\* connect waits for start() or its 5 s timeout, Restarting while a restart
\* stops the old client or sleeps, Connected otherwise
ConnectionState ==
    IF mainPc \in { "call", "threw_unconfigured", "threw_start", "returned" } \/ stopped
    THEN "Disconnected"
    ELSE IF Racing THEN "Connecting"
    ELSE IF restartInFlight THEN "Restarting"
    ELSE "Connected"

\* C11: the status surface is current: connected is true only while the
\* connection state is Connected, and running is false once
\* monitorFeishuProvider has terminated, by shutdown or by a failed start.
C11_StatusSurfaceCurrent ==
    /\ connected => ConnectionState = "Connected"
    /\ mainPc \in { "returned", "threw_start" } => ~running

----------------------------------------------------------------------------
(* Part 2: the policy helpers (policy.ts) *)

\* strings of at most MaxLen tokens are normalized
MaxLen == 3
\* allow-lists of at most MaxListLen entries are combined by resolveFeishuGroupAllow
MaxListLen == 2

Tokens == { "feishu:", "lark:", "user:", "open:", "chat:", "Lark:", "User:", " ", "*", "a", "B" }

\* String.prototype.toLowerCase, token by token
LowerToken(c) ==
    CASE c = "Lark:" -> "lark:"
      [] c = "User:" -> "user:"
      [] c = "B" -> "b"
      [] OTHER -> c

toLowerCase(s) == [ i \in 1 .. Len(s) |-> LowerToken(s[i]) ]

\* String.prototype.trim
RECURSIVE trim(_)
trim(s) ==
    IF s = << >> THEN s
    ELSE IF Head(s) = " " THEN trim(Tail(s))
    ELSE IF s[Len(s)] = " " THEN trim(SubSeq(s, 1, Len(s) - 1))
    ELSE s

\* s.replace(/^(p1|p2|..):/i, ""): removes one leading prefix out of prefixes
StripPrefix(s, prefixes) ==
    IF s # << >> /\ LowerToken(Head(s)) \in prefixes THEN Tail(s) ELSE s

\* mutant: the kind prefix is not removed
normalizeKeepsKind(raw) ==
    StripPrefix(toLowerCase(trim(raw)), { "feishu:", "lark:" })

normalizeFeishuAllowEntry(raw) ==
    StripPrefix(StripPrefix(toLowerCase(trim(raw)), { "feishu:", "lark:" }),
                { "user:", "open:", "chat:" })

\* an allow-list is the set of its entries: the code only asks for its length
\* being 0 and for includes()
normalizeFeishuAllowlist(values) ==
    { normalizeFeishuAllowEntry(v) : v \in values } \ { << >> }

\* mutant: only the primary id is a candidate
MatchCandidatesPrimaryOnly(senderId, senderUserId) ==
    { normalizeFeishuAllowEntry(senderId) } \ { << >> }

\* the candidates of resolveFeishuAllowlistMatch (senderUserId << >> = null or absent)
MatchCandidates(senderId, senderUserId) ==
    { normalizeFeishuAllowEntry(senderId), normalizeFeishuAllowEntry(senderUserId) } \ { << >> }

resolveFeishuAllowlistMatch(allowFromRaw, senderId, senderUserId, senderName) ==
    LET allowFrom == normalizeFeishuAllowlist(allowFromRaw)
        name == IF senderName # << >> THEN normalizeFeishuAllowEntry(senderName) ELSE << >>
    IN  IF allowFrom = {} THEN [ allowed |-> FALSE, matchSource |-> "none" ]
        ELSE IF <<"*">> \in allowFrom THEN [ allowed |-> TRUE, matchSource |-> "wildcard" ]
        ELSE IF MatchCandidates(senderId, senderUserId) \cap allowFrom # {}
             THEN [ allowed |-> TRUE, matchSource |-> "id" ]
        ELSE IF name # << >> /\ name \in allowFrom THEN [ allowed |-> TRUE, matchSource |-> "name" ]
        ELSE [ allowed |-> FALSE, matchSource |-> "none" ]

\* resolveNestedAllowlistDecision of clawdbot/plugin-sdk: the inner list is
\* nested in the outer one
resolveNestedAllowlistDecision(outerConfigured, outerMatched, innerConfigured, innerMatched) ==
    IF ~outerConfigured THEN TRUE
    ELSE IF ~outerMatched THEN FALSE
    ELSE IF ~innerConfigured THEN TRUE
    ELSE innerMatched

\* mutant: an unconfigured outer list counts as not matched
GroupOuterMatchedStrict(outerAllow, outerMatch) == outerMatch.allowed

\* outerMatched as resolveFeishuGroupAllow passes it
GroupOuterMatched(outerAllow, outerMatch) ==
    IF outerAllow # {} THEN outerMatch.allowed ELSE TRUE

resolveFeishuGroupAllow(groupPolicy, outerAllowFrom, innerAllowFrom, senderId, senderUserId, senderName) ==
    LET outerAllow == normalizeFeishuAllowlist(outerAllowFrom)
        innerAllow == normalizeFeishuAllowlist(innerAllowFrom)
        outerMatch == resolveFeishuAllowlistMatch(outerAllowFrom, senderId, senderUserId, senderName)
        innerMatch == resolveFeishuAllowlistMatch(innerAllowFrom, senderId, senderUserId, senderName)
    IN  IF groupPolicy = "disabled" THEN FALSE
        ELSE IF groupPolicy = "open" THEN TRUE
        ELSE IF outerAllow = {} /\ innerAllow = {} THEN FALSE
        ELSE resolveNestedAllowlistDecision(outerAllow # {} \/ innerAllow # {},
                                            GroupOuterMatched(outerAllow, outerMatch),
                                            innerAllow # {},
                                            innerMatch.allowed)

\* the strings of at most n tokens
Strings(n) == UNION { [ 1 .. k -> Tokens ] : k \in 0 .. n }

\* the sets of at most n elements of a set
SubsetsUpTo(set, n) == { x \in SUBSET set : Cardinality(x) <= n }

\* raw allow-list entries, as they are written in a configuration
AllowEntries ==
    { <<"*">>, <<"a">>, <<"b">>, <<"c">>, <<"feishu:", "user:", "B">>,
      <<" ", "lark:", "a", " ">>, <<"user:", "c">>, <<" ">> }

\* sender ids, as they arrive in an event (senderUserId and senderName may be absent)
SenderIds == { <<"a">>, <<"B">>, <<"user:", "c">> }
OptionalIds == SenderIds \cup { << >> }
SenderNames == { << >>, <<"b">> }

PolicyCall(fn, raw, groupPolicy, outer, inner, senderId, senderUserId, senderName) ==
    [ fn |-> fn, raw |-> raw, groupPolicy |-> groupPolicy, allowFrom |-> outer,
      innerAllowFrom |-> inner, senderId |-> senderId, senderUserId |-> senderUserId,
      senderName |-> senderName ]

\* the calls that are made: the helper and its arguments
NormalizeInputs ==
    \E x \in Strings(MaxLen) :
        pIn = PolicyCall("normalize", x, "open", {}, {}, << >>, << >>, << >>)

MatchInputs ==
    \E l \in SUBSET AllowEntries, s \in SenderIds, u \in OptionalIds, n \in SenderNames :
        pIn = PolicyCall("match", << >>, "open", l, {}, s, u, n)

GroupAllowInputs ==
    \E g \in { "disabled", "open", "allowlist" },
       o \in SubsetsUpTo(AllowEntries, MaxListLen), i \in SubsetsUpTo(AllowEntries, MaxListLen),
       s \in SenderIds, u \in OptionalIds, n \in SenderNames :
        pIn = PolicyCall("groupAllow", << >>, g, o, i, s, u, n)

\* the supervisor is not part of this specification: it is never called
SupervisorUnused == InitWith({ << << >>, << >> >> }, 0, 0, 0) /\ ~configured

InitPolicy ==
    /\ SupervisorUnused
    /\ HandlerIdle
    /\ LaterIdle
    /\ NormalizeInputs \/ MatchInputs \/ GroupAllowInputs
    /\ pOut = << >>

ApplyNormalize ==
    /\ pIn.fn = "normalize" /\ pOut = << >>
    /\ pOut' = << normalizeFeishuAllowEntry(pIn.raw) >>
    /\ UNCHANGED << supervisorVars, pIn, handlerVars, laterParts >>

ApplyMatch ==
    /\ pIn.fn = "match" /\ pOut = << >>
    /\ pOut' = << resolveFeishuAllowlistMatch(pIn.allowFrom, pIn.senderId, pIn.senderUserId,
                                              pIn.senderName) >>
    /\ UNCHANGED << supervisorVars, pIn, handlerVars, laterParts >>

ApplyGroupAllow ==
    /\ pIn.fn = "groupAllow" /\ pOut = << >>
    /\ pOut' = << resolveFeishuGroupAllow(pIn.groupPolicy, pIn.allowFrom, pIn.innerAllowFrom,
                                          pIn.senderId, pIn.senderUserId, pIn.senderName) >>
    /\ UNCHANGED << supervisorVars, pIn, handlerVars, laterParts >>

NextPolicy ==
    \/ ApplyNormalize
    \/ ApplyMatch
    \/ ApplyGroupAllow

SpecPolicy == InitPolicy /\ [][NextPolicy]_vars

----------------------------------------------------------------------------
(* Claims about the policy helpers *)

\* a call of fn has returned
Returned(fn) == pIn # << >> /\ pIn.fn = fn /\ pOut # << >>

\* C17: allow-list entry normalization is idempotent: normalizing the result
\* of normalizeFeishuAllowEntry again gives the same string.
C17_NormalizeIdempotent ==
    Returned("normalize") => normalizeFeishuAllowEntry(pOut[1]) = pOut[1]

\* the allow-list of the call as the helper compares it: normalized, without empty entries
CallAllowList == normalizeFeishuAllowlist(pIn.allowFrom)

\* one of the sender's two identities is in the allow-list of the call
EitherIdentityListed ==
    \/ normalizeFeishuAllowEntry(pIn.senderId) \in CallAllowList
    \/ pIn.senderUserId # << >> /\ normalizeFeishuAllowEntry(pIn.senderUserId) \in CallAllowList

\* C18: resolveFeishuAllowlistMatch returns allowed = true whenever the
\* (normalized) allow-list contains the wildcard, the normalized primary id or
\* the normalized secondary id of the sender, and allowed = false for an empty
\* list.
C18_EitherIdentityMatches ==
    Returned("match") =>
        /\ pIn.allowFrom = {} => ~pOut[1].allowed
        /\ (pIn.allowFrom # {} /\ (<<"*">> \in CallAllowList \/ EitherIdentityListed))
             => pOut[1].allowed

\* the sender is allowed by the secondary id alone
C18_Witness ==
    /\ Returned("match")
    /\ pOut[1].allowed
    /\ pOut[1].matchSource = "id"
    /\ <<"*">> \notin CallAllowList
    /\ normalizeFeishuAllowEntry(pIn.senderId) \notin CallAllowList

\* what the group admission of C15 is about: which of the two lists are
\* configured (not empty once normalized) and which of them the sender matches
OuterConfigured == normalizeFeishuAllowlist(pIn.allowFrom) # {}
InnerConfigured == normalizeFeishuAllowlist(pIn.innerAllowFrom) # {}
OuterMatched ==
    resolveFeishuAllowlistMatch(pIn.allowFrom, pIn.senderId, pIn.senderUserId, pIn.senderName).allowed
InnerMatched ==
    resolveFeishuAllowlistMatch(pIn.innerAllowFrom, pIn.senderId, pIn.senderUserId, pIn.senderName).allowed
AllowlistCallReturned == Returned("groupAllow") /\ pIn.groupPolicy = "allowlist"

----------------------------------------------------------------------------
(* Part 3: handleFeishuMessage *)

\* a room entry of account.config.chats; "unset" = the field is absent
ChatEntry(enabled, allowFrom, requireMention) ==
    [ enabled |-> enabled, allowFrom |-> allowFrom, requireMention |-> requireMention ]

\* account.config.chats as seen from the chat of the event: its own entry
\* (<< >> = none), the "*" entry (<< >> = none), and whether other chats have entries
Chats(direct, wildcard, others) == [ direct |-> direct, wildcard |-> wildcard, others |-> others ]

\* mutant: a chat without a matching entry is allowed
resolveFeishuChatMatchOpen(chats) ==
    [ chatConfig |-> IF chats.direct # << >> THEN chats.direct ELSE chats.wildcard,
      wildcardConfig |-> chats.wildcard,
      allowlistConfigured |-> chats.direct # << >> \/ chats.wildcard # << >> \/ chats.others,
      allowed |-> TRUE ]

\* resolveFeishuChatMatch: the entry of the chat, else the "*" entry
resolveFeishuChatMatch(chats) ==
    LET allowlistConfigured == chats.direct # << >> \/ chats.wildcard # << >> \/ chats.others
        chatConfig == IF chats.direct # << >> THEN chats.direct ELSE chats.wildcard
    IN  [ chatConfig |-> chatConfig,
          wildcardConfig |-> chats.wildcard,
          allowlistConfigured |-> allowlistConfigured,
          allowed |-> resolveNestedAllowlistDecision(allowlistConfigured, chatConfig # << >>,
                                                     FALSE, FALSE) ]

\* mutant: the "*" entry is not consulted
resolveFeishuRequireMentionNoWildcard(chatConfig, wildcardConfig) ==
    IF chatConfig # << >> /\ chatConfig[1].requireMention # "unset"
    THEN chatConfig[1].requireMention = "true"
    ELSE TRUE

\* mutant: the requireMention of the entries is not read
resolveFeishuRequireMentionDefault(chatConfig, wildcardConfig) == TRUE

resolveFeishuRequireMention(chatConfig, wildcardConfig) ==
    IF chatConfig # << >> /\ chatConfig[1].requireMention # "unset"
    THEN chatConfig[1].requireMention = "true"
    ELSE IF wildcardConfig # << >> /\ wildcardConfig[1].requireMention # "unset"
    THEN wildcardConfig[1].requireMention = "true"
    ELSE TRUE

\* resolveControlCommandGate of clawdbot/plugin-sdk, with the one authorizer
\* the handler passes
resolveControlCommandGate(useAccessGroups, authConfigured, authAllowed, allowTextCommands, hasControlCommand) ==
    LET commandAuthorized == IF useAccessGroups THEN authConfigured /\ authAllowed ELSE TRUE
    IN  [ commandAuthorized |-> commandAuthorized,
          shouldBlock |-> allowTextCommands /\ hasControlCommand /\ ~commandAuthorized ]

\* resolveFeishuMentionGate, that is resolveMentionGatingWithBypass of
\* clawdbot/plugin-sdk with canDetectMention = true
resolveFeishuMentionGate(isGroup, requireMention, wasMentioned, allowTextCommands, hasControlCommand, commandAuthorized) ==
    LET shouldBypassMention ==
            /\ isGroup /\ requireMention /\ ~wasMentioned
            /\ allowTextCommands /\ hasControlCommand /\ commandAuthorized
    IN  [ shouldSkip |-> requireMention /\ ~(wasMentioned \/ shouldBypassMention),
          shouldBypassMention |-> shouldBypassMention ]

\* mutant: the command gate is not looked at
BlocksCommandNever(isGroup, commandGate) == FALSE

\* if (isGroup && commandGate.shouldBlock) return
BlocksCommand(isGroup, commandGate) == isGroup /\ commandGate.shouldBlock

\* effectiveAllowFrom
DmAllowFrom(configAllowFrom, storeAllowList) == configAllowFrom \cup storeAllowList

\* account.config.dmPolicy ?? "pairing"
dmPolicyOf(a) == IF a.dmPolicy = "unset" THEN "pairing" ELSE a.dmPolicy

\* account.config.groupPolicy ?? defaultGroupPolicy ?? "allowlist", no default being configured
groupPolicyOf(a) == IF a.groupPolicy = "unset" THEN "allowlist" ELSE a.groupPolicy

\* mutant: the group policy is not applied to the group
GroupPolicyIgnored(a, e, outer, inner) == TRUE

\* groupAllow.allowed for the event e of the account a
GroupPolicyAllows(a, e, outer, inner) ==
    resolveFeishuGroupAllow(groupPolicyOf(a), outer, inner, e.senderId, e.senderUserId, e.senderId)

\* mutant: only dmPolicy allowlist rejects a sender who is not allowed
DmRejectsAllowlistOnly(dmPolicy, dmAllowed) == dmPolicy = "allowlist" /\ ~dmAllowed

\* if (dmPolicy !== "open") { ... if (!dmAllowed) { ... return } }
DmRejects(dmPolicy, dmAllowed) == dmPolicy # "open" /\ ~dmAllowed

\* mutant: a command that bypasses the mention requirement is skipped as well
MentionSkipsBypassed(isGroup, mentionGate) ==
    isGroup /\ (mentionGate.shouldSkip \/ mentionGate.shouldBypassMention)

\* if (isGroup && mentionGate.shouldSkip) return
MentionSkips(isGroup, mentionGate) == isGroup /\ mentionGate.shouldSkip

\* chatAllowFrom: the allowFrom of the room entry that matched
chatAllowFromOf(a) ==
    LET chatConfig == resolveFeishuChatMatch(a.chats).chatConfig
    IN  IF chatConfig = << >> THEN {} ELSE normalizeFeishuAllowlist(chatConfig[1].allowFrom)

\* effectiveGroupAllowFrom: groupAllowFrom, else allowFrom, plus the allow-store
effectiveGroupAllowFromOf(a, storeAllowFrom) ==
    LET configAllowFrom == normalizeFeishuAllowlist(a.allowFrom)
        configGroupAllowFrom == normalizeFeishuAllowlist(a.groupAllowFrom)
        baseGroupAllowFrom ==
            IF configGroupAllowFrom # {} THEN configGroupAllowFrom ELSE configAllowFrom
    IN  baseGroupAllowFrom \cup normalizeFeishuAllowlist(storeAllowFrom)

\* effectiveAllowFrom: allowFrom plus the allow-store
effectiveAllowFromOf(a, storeAllowFrom) ==
    DmAllowFrom(normalizeFeishuAllowlist(a.allowFrom), normalizeFeishuAllowlist(storeAllowFrom))

\* commandGate of the event e: the sender is authorized for commands when
\* the list of the chat type is configured and the sender is on it (for a
\* group, on it or on the room's allowFrom)
commandGateOf(a, e, storeAllowFrom) ==
    LET effectiveAllowFrom == effectiveAllowFromOf(a, storeAllowFrom)
        effectiveGroupAllowFrom == effectiveGroupAllowFromOf(a, storeAllowFrom)
        senderAllowedForCommands ==
            resolveFeishuAllowlistMatch(
                IF e.isGroup THEN effectiveGroupAllowFrom \cup chatAllowFromOf(a)
                ELSE effectiveAllowFrom,
                e.senderId, e.senderUserId, e.senderId).allowed
    IN  resolveControlCommandGate(
            a.useAccessGroups,
            (IF e.isGroup THEN effectiveGroupAllowFrom ELSE effectiveAllowFrom) # {},
            senderAllowedForCommands, a.allowTextCommands, e.hasControlCommand)

\* handleFeishuMessage from the store read to the next await or return: what
\* becomes of the event e under the account a when the store read gave storeAllowFrom
Admission(a, e, storeAllowFrom) ==
    LET chatMatch == resolveFeishuChatMatch(a.chats)
        chatConfig == chatMatch.chatConfig
        chatAllowFrom == chatAllowFromOf(a)
        effectiveAllowFrom == effectiveAllowFromOf(a, storeAllowFrom)
        effectiveGroupAllowFrom == effectiveGroupAllowFromOf(a, storeAllowFrom)
        commandGate == commandGateOf(a, e, storeAllowFrom)
        dmAllowed ==
            resolveFeishuAllowlistMatch(effectiveAllowFrom, e.senderId, e.senderUserId,
                                        e.senderId).allowed
        shouldRequireMention ==
            IF e.isGroup THEN resolveFeishuRequireMention(chatConfig, chatMatch.wildcardConfig)
            ELSE FALSE
        mentionGate ==
            resolveFeishuMentionGate(e.isGroup, shouldRequireMention,
                                     e.isGroup /\ e.wasMentioned, a.allowTextCommands,
                                     e.hasControlCommand, commandGate.commandAuthorized)
    IN  IF e.isGroup /\ ~chatMatch.allowed THEN "drop: not allowlisted"
        ELSE IF chatConfig # << >> /\ chatConfig[1].enabled = "false" THEN "drop: disabled"
        ELSE IF BlocksCommand(e.isGroup, commandGate) THEN "drop: control command (unauthorized)"
        ELSE IF e.isGroup /\ ~GroupPolicyAllows(a, e, effectiveGroupAllowFrom, chatAllowFrom)
             THEN "drop: group policy"
        ELSE IF ~e.isGroup /\ dmPolicyOf(a) = "disabled" THEN "drop: dmPolicy"
        ELSE IF ~e.isGroup /\ DmRejects(dmPolicyOf(a), dmAllowed)
             THEN IF dmPolicyOf(a) = "pairing" THEN "pair" ELSE "drop: dmPolicy"
        ELSE IF MentionSkips(e.isGroup, mentionGate) THEN "drop: no mention"
        ELSE "admit"

\* at most MaxMsgs direct messages are handled concurrently
MaxMsgs == 3

\* an inbound event, as far as the admission reads it.  shape "ok" = it has a
\* message, a sender id, a chat id and a text; the other shapes are returned
\* from before the store is read
Event(shape, isGroup, hasControlCommand, wasMentioned) ==
    [ shape |-> shape, isGroup |-> isGroup, senderId |-> <<"a">>, senderUserId |-> << >>,
      hasControlCommand |-> hasControlCommand, wasMentioned |-> wasMentioned ]

MalformedShapes == { "noMessage", "fromApp", "noSender", "fromBot", "noChatId", "noText" }

\* the events of the kinds ("dm", "group") that arrive
Events(kinds) ==
    { Event("ok", FALSE, c, FALSE) : c \in { x \in BOOLEAN : "dm" \in kinds } }
    \cup { Event("ok", TRUE, cm[1], cm[2]) :
             cm \in { x \in BOOLEAN \X BOOLEAN : "group" \in kinds } }
    \cup { Event(s, "group" \in kinds, FALSE, FALSE) : s \in MalformedShapes }

\* a handler instance: the event, the position of the async function, and
\* what it has done so far
Handler(ev, pc, outcome) ==
    [ ev |-> ev, pc |-> pc, outcome |-> outcome,
      storeAllowFrom |-> {},        \* what await readAllowFromStore gave
      inboundNoted |-> FALSE,       \* statusSink({ lastInboundAt }) and activity.record
      created |-> FALSE,            \* upsertPairingRequest returned created: true
      replies |-> 0,                \* sendTextFeishu calls for the pairing reply
      delivered |-> 0,              \* those of them that resolved
      recorded |-> FALSE,           \* recordInboundSession was called
      dispatched |-> FALSE ]        \* dispatchReplyFromConfig was called

\* handleFeishuMessage is called with an event: up to await readAllowFromStore
Receive(ev) ==
    /\ traffic # << >>
    /\ Len(hs) < traffic.maxEvents
    /\ ev \in Events(traffic.kinds)
    /\ hs' = Append(hs, IF ev.shape # "ok"
                        THEN Handler(ev, "done", "drop: malformed")
                        ELSE [ Handler(ev, "readStore", "none") EXCEPT !.inboundNoted = TRUE ])
    /\ UNCHANGED << supervisorVars, laterParts, pIn, pOut, acct, traffic, store, pending >>

\* mutant: the session is recorded before the mention check
RecordsSessionEarly(verdict) == verdict \in { "admit", "drop: no mention" }

\* await recordInboundSession(...) comes after the last check that returns
RecordsSession(verdict) == verdict = "admit"

\* the store read returns (ok) or fails (.catch(() => [])): the admission
\* checks run up to the next await or return
StoreRead(i, ok) ==
    /\ hs[i].pc = "readStore"
    /\ LET storeAllowFrom == IF ok THEN store ELSE {}
           verdict == Admission(acct, hs[i].ev, storeAllowFrom)
           h == [ hs[i] EXCEPT !.storeAllowFrom = storeAllowFrom ]
       IN  hs' = [ hs EXCEPT ![i] =
                     IF verdict = "pair" THEN [ h EXCEPT !.pc = "upsert" ]
                     ELSE IF verdict = "admit"
                          THEN [ h EXCEPT !.pc = "recording",
                                          !.recorded = RecordsSession(verdict) ]
                     ELSE [ h EXCEPT !.pc = "done", !.outcome = verdict,
                                     !.recorded = RecordsSession(verdict) ] ]
    /\ UNCHANGED << supervisorVars, laterParts, pIn, pOut, acct, traffic, store, pending >>

\* mutant: the pairing reply is sent for every message
SendsPairingReplyAlways(created) == TRUE

\* if (created) { await sendTextFeishu(...) }
SendsPairingReply(created) == created

\* upsertPairingRequest returns: create-or-fetch, keyed by the sender id
Upsert(i) ==
    /\ hs[i].pc = "upsert"
    /\ LET created == hs[i].ev.senderId \notin pending
       IN  /\ pending' = pending \cup { hs[i].ev.senderId }
           /\ hs' = [ hs EXCEPT ![i] =
                        IF SendsPairingReply(created)
                        THEN [ @ EXCEPT !.pc = "replying", !.created = created, !.replies = 1 ]
                        ELSE [ @ EXCEPT !.pc = "done", !.created = created,
                                        !.outcome = "drop: dmPolicy" ] ]
    /\ UNCHANGED << supervisorVars, laterParts, pIn, pOut, acct, traffic, store >>

\* sendTextFeishu of the pairing reply resolves (ok) or rejects, which is
\* caught and logged: the event is dropped
ReplySettles(i, ok) ==
    /\ hs[i].pc = "replying"
    /\ hs' = [ hs EXCEPT ![i].pc = "done", ![i].outcome = "drop: dmPolicy",
                         ![i].delivered = IF ok THEN 1 ELSE 0 ]
    /\ UNCHANGED << supervisorVars, laterParts, pIn, pOut, acct, traffic, store, pending >>

\* recordInboundSession returns: the reply dispatcher is set up and
\* dispatchReplyFromConfig is called
RecordDone(i) ==
    /\ hs[i].pc = "recording"
    /\ hs' = [ hs EXCEPT ![i].pc = "dispatching", ![i].dispatched = TRUE ]
    /\ UNCHANGED << supervisorVars, laterParts, pIn, pOut, acct, traffic, store, pending >>

\* dispatchReplyFromConfig returns
DispatchDone(i) ==
    /\ hs[i].pc = "dispatching"
    /\ hs' = [ hs EXCEPT ![i].pc = "done", ![i].outcome = "handled" ]
    /\ UNCHANGED << supervisorVars, laterParts, pIn, pOut, acct, traffic, store, pending >>

\* the owner approves a pairing request: the sender enters the allow-store
Approve(id) ==
    /\ id \in pending
    /\ store' = store \cup { id }
    /\ pending' = pending \ { id }
    /\ UNCHANGED << supervisorVars, laterParts, pIn, pOut, acct, traffic, hs >>

NextAdmit ==
    \/ \E ev \in Events({ "dm", "group" }) : Receive(ev)
    \/ \E i \in 1 .. Len(hs), ok \in BOOLEAN : StoreRead(i, ok)
    \/ \E i \in 1 .. Len(hs) : Upsert(i)
    \/ \E i \in 1 .. Len(hs), ok \in BOOLEAN : ReplySettles(i, ok)
    \/ \E i \in 1 .. Len(hs) : RecordDone(i)
    \/ \E i \in 1 .. Len(hs) : DispatchDone(i)
    \/ \E id \in pending : Approve(id)

\* the configuration the admission reads
Account(dmPolicy, groupPolicy, allowFrom, groupAllowFrom, chats, useAccessGroups, allowTextCommands) ==
    [ dmPolicy |-> dmPolicy, groupPolicy |-> groupPolicy, allowFrom |-> allowFrom,
      groupAllowFrom |-> groupAllowFrom, chats |-> chats,
      useAccessGroups |-> useAccessGroups, allowTextCommands |-> allowTextCommands ]

\* allow-lists as they are configured: empty, somebody else, the sender, everybody
AllowLists == { {}, { <<"b">> }, { <<"Lark:", "a">> }, { <<"*">> } }

\* room entries: enabled and with every allowFrom and requireMention, or disabled
RoomEntries ==
    { ChatEntry("unset", l, m) :
        l \in { {}, { <<"a">> }, { <<"b">> } }, m \in { "unset", "true", "false" } }
    \cup { ChatEntry("false", {}, "unset") }

NoChats == Chats(<< >>, << >>, FALSE)

\* account.config.chats: nothing, entries of other chats only, an entry of
\* the chat, the "*" entry, or both
ChatConfigs ==
    { NoChats, Chats(<< >>, << >>, TRUE) }
    \cup { Chats(<< e >>, << >>, FALSE) : e \in RoomEntries }
    \cup { Chats(<< >>, << e >>, FALSE) : e \in RoomEntries }
    \cup { Chats(<< ChatEntry("unset", {}, m[1]) >>, << ChatEntry("unset", {}, m[2]) >>, FALSE) :
             m \in { "unset", "false" } \X { "true", "false" } }

\* one direct message under every configuration that a direct message reads.
\* dmPolicy "open" requires allowFrom to include "*" (FeishuConfigSchema)
DmScene ==
    \E d \in { "unset", "pairing", "allowlist", "open", "disabled" }, l \in AllowLists,
       c \in { NoChats, Chats(<< >>, << >>, TRUE),
               Chats(<< ChatEntry("unset", {}, "unset") >>, << >>, FALSE),
               Chats(<< ChatEntry("false", {}, "unset") >>, << >>, FALSE),
               Chats(<< >>, << ChatEntry("false", {}, "unset") >>, FALSE) },
       u \in BOOLEAN, x \in BOOLEAN, s \in { {}, { <<"a">> } } :
        /\ d = "open" => <<"*">> \in l
        /\ acct = Account(d, "unset", l, {}, c, u, x)
        /\ traffic = [ maxEvents |-> 1, kinds |-> { "dm" } ]
        /\ store = s

\* one group message under every configuration that a group message reads
GroupScene ==
    \E g \in { "unset", "allowlist", "open", "disabled" },
       l \in { {}, { <<"Lark:", "a">> } }, gl \in AllowLists, c \in ChatConfigs,
       u \in BOOLEAN, x \in BOOLEAN, s \in { {}, { <<"a">> } } :
        /\ acct = Account("unset", g, l, gl, c, u, x)
        /\ traffic = [ maxEvents |-> 1, kinds |-> { "group" } ]
        /\ store = s

InitAdmit ==
    /\ SupervisorUnused
    /\ PolicyIdle
    /\ LaterIdle
    /\ pending = {} /\ hs = << >>
    /\ DmScene \/ GroupScene

SpecAdmit == InitAdmit /\ [][NextAdmit]_vars

\* up to MaxMsgs direct messages of one sender who is not approved, under
\* dmPolicy pairing (configured or by default)
InitPairing ==
    /\ SupervisorUnused
    /\ PolicyIdle
    /\ LaterIdle
    /\ pending = {} /\ hs = << >> /\ store = {}
    /\ traffic = [ maxEvents |-> MaxMsgs, kinds |-> { "dm" } ]
    /\ \E d \in { "unset", "pairing" }, l \in { {}, { <<"b">> } } :
         acct = Account(d, "unset", l, {}, NoChats, TRUE, TRUE)

SpecPairing == InitPairing /\ [][NextAdmit]_vars

----------------------------------------------------------------------------
(* Claims about handleFeishuMessage *)

\* the handler instances of well-formed direct messages
DirectMessages == { i \in 1 .. Len(hs) : hs[i].ev.shape = "ok" /\ ~hs[i].ev.isGroup }

RECURSIVE Sum(_, _)
Sum(f, idx) == IF idx = {} THEN 0 ELSE LET i == CHOOSE j \in idx : TRUE IN f[i] + Sum(f, idx \ { i })

\* pairing requests created, and pairing replies sent (sendTextFeishu calls), so far
PairingRequestsCreated == Cardinality({ i \in DirectMessages : hs[i].created })
PairingRepliesSent == Sum([ i \in 1 .. Len(hs) |-> hs[i].replies ], 1 .. Len(hs))
PairingRepliesDelivered == Sum([ i \in 1 .. Len(hs) |-> hs[i].delivered ], 1 .. Len(hs))

\* the sender has not been approved
Unapproved == <<"a">> \notin store

\* every event has arrived and every handler has returned
AllHandled == Len(hs) = traffic.maxEvents /\ \A i \in 1 .. Len(hs) : hs[i].pc = "done"

\* C12 as claimed: exactly one pairing reply reaches the unapproved sender
\* once the direct messages are handled
C12_AsClaimed ==
    Unapproved /\ AllHandled /\ DirectMessages # {} =>
        PairingRequestsCreated = 1 /\ PairingRepliesDelivered = 1

\* C12: under dmPolicy pairing, while the sender is not approved, the direct
\* messages of the sender create at most one pairing request and call
\* sendTextFeishu for the pairing reply at most once, in every interleaving
\* of their handlers; once all of them are handled the request was created
\* once and the send was called once, and the reply was delivered exactly
\* when that one send resolved
C12_OnePairingReply ==
    Unapproved =>
        /\ PairingRequestsCreated <= 1
        /\ PairingRepliesSent <= 1
        /\ PairingRepliesDelivered <= PairingRepliesSent
        /\ AllHandled /\ DirectMessages # {} =>
             PairingRequestsCreated = 1 /\ PairingRepliesSent = 1

\* three direct messages of the unapproved sender were handled, the reply to
\* the first was delivered and the other two sent none
C12_Witness ==
    /\ Unapproved
    /\ AllHandled
    /\ Cardinality(DirectMessages) = MaxMsgs
    /\ PairingRepliesSent = 1 /\ PairingRepliesDelivered = 1
    /\ hs[1].created /\ ~hs[2].created /\ ~hs[3].created

\* the sender matches the configured allowFrom or the persisted allow-store
SenderKnown ==
    resolveFeishuAllowlistMatch(
        normalizeFeishuAllowlist(acct.allowFrom) \cup normalizeFeishuAllowlist(store),
        <<"a">>, << >>, <<"a">>).allowed

\* handler i has handed its event to the agent runtime
Forwarded(i) == hs[i].recorded \/ hs[i].dispatched

\* C13: under dmPolicy pairing, a direct message of a sender who matches
\* neither the configured allowFrom nor the persisted allow-store is never
\* forwarded to the agent runtime (no session record, no dispatch), whether
\* the pairing reply was delivered or failed, and at most the one pairing
\* reply is sent
C13_UnknownSenderNotForwarded ==
    dmPolicyOf(acct) = "pairing" /\ ~SenderKnown =>
        \A i \in DirectMessages :
            /\ ~Forwarded(i)
            /\ hs[i].replies <= 1
            /\ hs[i].pc = "done" => hs[i].outcome \in { "drop: dmPolicy", "drop: disabled" }

\* a direct message of an unknown sender was dropped after its pairing reply failed
C13_Witness ==
    /\ dmPolicyOf(acct) = "pairing" /\ ~SenderKnown
    /\ \E i \in DirectMessages :
         /\ hs[i].pc = "done" /\ hs[i].outcome = "drop: dmPolicy"
         /\ hs[i].created /\ hs[i].replies = 1 /\ hs[i].delivered = 0
         /\ ~Forwarded(i)

\* the handler instances of well-formed group messages
GroupMessages == { i \in 1 .. Len(hs) : hs[i].ev.shape = "ok" /\ hs[i].ev.isGroup }

\* the outcomes of an event that is dropped
DropOutcomes ==
    { "drop: malformed", "drop: not allowlisted", "drop: disabled",
      "drop: control command (unauthorized)", "drop: group policy", "drop: dmPolicy",
      "drop: no mention" }

\* C14: with groupPolicy disabled every group message is dropped and never
\* reaches the agent runtime, whatever the allow-lists, the room entries, the
\* persisted approvals, the mention status and the control-command content
C14_DisabledGroupPolicyDropsAll ==
    groupPolicyOf(acct) = "disabled" =>
        \A i \in GroupMessages :
            /\ ~Forwarded(i)
            /\ hs[i].pc \in { "readStore", "done" }
            /\ hs[i].pc = "done" => hs[i].outcome \in DropOutcomes

\* a mentioned group message of a sender who is on the account's
\* groupAllowFrom, on the room's allowFrom and in the allow-store was dropped
\* by the disabled group policy
C14_Witness ==
    /\ groupPolicyOf(acct) = "disabled"
    /\ <<"*">> \in acct.groupAllowFrom /\ <<"a">> \in store
    /\ acct.chats.direct = << ChatEntry("unset", { <<"a">> }, "false") >>
    /\ \E i \in GroupMessages :
         /\ hs[i].ev.wasMentioned
         /\ hs[i].pc = "done" /\ hs[i].outcome = "drop: group policy"

\* the room of the event has an entry with requireMention: false that
\* neither disables the room nor lists senders other than the sender
RoomWithoutMention ==
    /\ acct.chats.direct # << >>
    /\ acct.chats.direct[1].requireMention = "false"
    /\ acct.chats.direct[1].enabled # "false"
    /\ acct.chats.direct[1].allowFrom \in { {}, { <<"a">> } }

\* C16: a plain-text group message without a mention and without a control
\* command is handed to the agent runtime when its room has an entry with
\* requireMention: false (that does not disable the room and has no allowFrom
\* that excludes the sender), groupPolicy is allowlist and groupAllowFrom
\* contains "*"
C16_NoMentionRoomAdmits ==
    /\ RoomWithoutMention
    /\ groupPolicyOf(acct) = "allowlist"
    /\ <<"*">> \in acct.groupAllowFrom
    => \A i \in GroupMessages :
           ~hs[i].ev.wasMentioned /\ ~hs[i].ev.hasControlCommand /\ hs[i].pc # "readStore" =>
               /\ hs[i].recorded
               /\ hs[i].pc \in { "recording", "dispatching", "done" }
               /\ hs[i].pc = "done" => hs[i].dispatched /\ hs[i].outcome = "handled"

\* the scenario: room entry { requireMention: false }, groupPolicy allowlist,
\* groupAllowFrom ["*"], and the plain message was dispatched
C16_Witness ==
    /\ acct.chats = Chats(<< ChatEntry("unset", {}, "false") >>, << >>, FALSE)
    /\ acct.groupPolicy = "allowlist"
    /\ acct.groupAllowFrom = { <<"*">> }
    /\ \E i \in GroupMessages :
         /\ ~hs[i].ev.wasMentioned /\ ~hs[i].ev.hasControlCommand
         /\ hs[i].pc = "done" /\ hs[i].recorded /\ hs[i].dispatched

\* handler i has returned with its event dropped
Dropped(i) == hs[i].pc = "done" /\ hs[i].outcome \in DropOutcomes

\* handler i sent the pairing reply: a direct message under dmPolicy pairing
\* whose pairing request was created
PairingReplyOf(i) ==
    /\ ~hs[i].ev.isGroup /\ dmPolicyOf(acct) = "pairing"
    /\ hs[i].outcome = "drop: dmPolicy" /\ hs[i].created

\* C19: an event that is dropped at any step (malformed, room not
\* allow-listed or disabled, unauthorized control command, group or DM
\* policy, missing mention) has written no session record, has not been
\* dispatched to the agent and has sent no reply, the one pairing reply of
\* the DM pairing step being the only exception
C19_DropsLeaveNoTrace ==
    \A i \in 1 .. Len(hs) :
        /\ Dropped(i) =>
             /\ ~hs[i].recorded /\ ~hs[i].dispatched
             /\ hs[i].replies = 0 \/ (hs[i].replies = 1 /\ PairingReplyOf(i))
             /\ hs[i].outcome = "drop: malformed" => ~hs[i].inboundNoted
        /\ hs[i].pc = "done" => Dropped(i) \/ hs[i].outcome = "handled"

\* a group message that passed the room, command and group-policy checks
\* was dropped by the last check, the mention gate, without a trace
C19_Witness ==
    \E i \in GroupMessages :
        /\ Dropped(i) /\ hs[i].outcome = "drop: no mention"
        /\ hs[i].inboundNoted
        /\ ~hs[i].recorded /\ ~hs[i].dispatched /\ hs[i].replies = 0

\* C20: in a group chat where text commands are handled, a control command
\* of a sender who is not authorized for commands is dropped and never
\* forwarded to the agent runtime, also when the group policy would admit
\* the sender's ordinary message (groupPolicy open)
C20_UnauthorizedGroupCommandDropped ==
    \A i \in GroupMessages :
        /\ hs[i].ev.hasControlCommand
        /\ acct.allowTextCommands
        /\ ~commandGateOf(acct, hs[i].ev, store).commandAuthorized
        /\ hs[i].pc # "readStore"
        => /\ ~Forwarded(i)
           /\ Dropped(i)

\* under groupPolicy open a mentioned control command was dropped as
\* unauthorized although the same message without the command is admitted
C20_Witness ==
    \E i \in GroupMessages :
        /\ groupPolicyOf(acct) = "open"
        /\ hs[i].ev.hasControlCommand /\ hs[i].ev.wasMentioned
        /\ Dropped(i) /\ hs[i].outcome = "drop: control command (unauthorized)"
        /\ Admission(acct, [ hs[i].ev EXCEPT !.hasControlCommand = FALSE ], store) = "admit"

\* the room of a group message requires a mention
RequiresMention ==
    LET chatMatch == resolveFeishuChatMatch(acct.chats)
    IN  resolveFeishuRequireMention(chatMatch.chatConfig, chatMatch.wildcardConfig)

\* handler i has passed the store read, and its event, had it mentioned the
\* bot, would have passed every check
AdmittedIfMentioned(i) ==
    /\ hs[i].pc # "readStore"
    /\ Admission(acct, [ hs[i].ev EXCEPT !.wasMentioned = TRUE ], hs[i].storeAllowFrom) = "admit"

\* the event of handler i is a control command of a sender authorized for commands
AuthorizedCommand(i) ==
    /\ hs[i].ev.hasControlCommand
    /\ commandGateOf(acct, hs[i].ev, hs[i].storeAllowFrom).commandAuthorized

\* handler i goes on to the agent runtime
OnTheWayToTheAgent(i) ==
    /\ hs[i].recorded
    /\ hs[i].pc \in { "recording", "dispatching", "done" }
    /\ hs[i].pc = "done" => hs[i].dispatched /\ hs[i].outcome = "handled"

C21_WitnessDrop ==
    \E i \in GroupMessages :
        /\ RequiresMention /\ ~hs[i].ev.wasMentioned /\ ~hs[i].ev.hasControlCommand
        /\ AdmittedIfMentioned(i)
        /\ hs[i].outcome = "drop: no mention"

\* the first requireMention of the entries (<< >> = no entry) that is a boolean, else true
FirstBoolean(entries) ==
    LET set == { k \in 1 .. Len(entries) :
                   entries[k] # << >> /\ entries[k][1].requireMention \in { "true", "false" } }
    IN  IF set = {} THEN TRUE
        ELSE entries[CHOOSE k \in set : \A l \in set : k <= l][1].requireMention = "true"

\* the mention requirement as the claim states it: the chat's own entry, then
\* the "*" entry, then true
StatedRequireMention == FirstBoolean(<< acct.chats.direct, acct.chats.wildcard >>)

\* C22: the mention requirement applied to a group message is the
\* requireMention of the chat's entry when that is a boolean, else that of
\* the "*" entry when that is a boolean, else true; a chat without an entry
\* of its own that falls back to the "*" entry passes the room check and is
\* held to the "*" entry's setting
C22_RequireMentionResolution ==
    \A i \in GroupMessages :
        /\ hs[i].pc # "readStore" /\ acct.chats.direct = << >> /\ acct.chats.wildcard # << >>
           => hs[i].outcome # "drop: not allowlisted"
        /\ ~hs[i].ev.wasMentioned /\ ~hs[i].ev.hasControlCommand /\ AdmittedIfMentioned(i)
           => IF StatedRequireMention
              THEN Dropped(i) /\ hs[i].outcome = "drop: no mention"
              ELSE OnTheWayToTheAgent(i)

\* a chat without an entry of its own, the "*" entry saying requireMention:
\* false: the message without a mention was dispatched
C22_Witness ==
    \E i \in GroupMessages :
        /\ acct.chats.direct = << >> /\ acct.chats.wildcard # << >>
        /\ acct.chats.wildcard[1].requireMention = "false"
        /\ ~hs[i].ev.wasMentioned /\ ~hs[i].ev.hasControlCommand
        /\ hs[i].pc = "done" /\ hs[i].dispatched

\* the chat's entry leaves requireMention unset and the "*" entry says
\* false, or the chat's entry says false and the "*" entry true: not held to a mention
C22_WitnessPrecedence ==
    \E i \in GroupMessages :
        /\ acct.chats.direct # << >> /\ acct.chats.wildcard # << >>
        /\ acct.chats.direct[1].requireMention = "false"
        /\ acct.chats.wildcard[1].requireMention = "true"
        /\ ~hs[i].ev.wasMentioned /\ ~hs[i].ev.hasControlCommand
        /\ hs[i].pc = "done" /\ hs[i].dispatched

\* the room entry that matches the chat: its own, else the "*" entry, else none
MatchedEntry == IF acct.chats.direct # << >> THEN acct.chats.direct ELSE acct.chats.wildcard

\* at least one room entry is configured
RoomsConfigured == acct.chats.direct # << >> \/ acct.chats.wildcard # << >> \/ acct.chats.others

\* C23: a group message is dropped when room entries are configured and
\* neither an entry of the chat nor the "*" entry matches; it passes the room
\* check when no room entry is configured; and it is dropped, whoever the
\* sender is, when the matched entry has enabled: false
C23_RoomResolution ==
    \A i \in GroupMessages :
        hs[i].pc # "readStore" =>
            /\ RoomsConfigured /\ MatchedEntry = << >>
               => Dropped(i) /\ hs[i].outcome = "drop: not allowlisted"
            /\ ~RoomsConfigured
               => hs[i].outcome \notin { "drop: not allowlisted", "drop: disabled" }
            /\ MatchedEntry # << >> /\ MatchedEntry[1].enabled = "false"
               => Dropped(i) /\ hs[i].outcome = "drop: disabled"

\* a mentioned message of a sender who is on groupAllowFrom and in the
\* allow-store, under groupPolicy open, was dropped because its room is disabled
C23_Witness ==
    \E i \in GroupMessages :
        /\ MatchedEntry # << >> /\ MatchedEntry[1].enabled = "false"
        /\ groupPolicyOf(acct) = "open"
        /\ <<"*">> \in acct.groupAllowFrom /\ <<"a">> \in hs[i].storeAllowFrom
        /\ hs[i].ev.wasMentioned
        /\ Dropped(i) /\ hs[i].outcome = "drop: disabled"

\* entries of other chats only: the message was dropped as not allow-listed
C23_WitnessNoMatch ==
    \E i \in GroupMessages :
        /\ RoomsConfigured /\ MatchedEntry = << >>
        /\ groupPolicyOf(acct) = "open" /\ hs[i].ev.wasMentioned
        /\ Dropped(i) /\ hs[i].outcome = "drop: not allowlisted"

----------------------------------------------------------------------------
(* Part 4: persistFeishuSenderBinding *)

\* at most MaxBindingCalls calls of persistFeishuSenderBinding arrive
MaxBindingCalls == 4

\* a call: the sender, the position of the async function, the config it
\* loaded (<< >> before loadConfig), and how it returned
BindingCall(sender, pc, currentConfig, outcome) ==
    [ sender |-> sender, pc |-> pc, currentConfig |-> currentConfig, outcome |-> outcome ]

\* mutant: only the done set holds a call back
SkipsBindingUnlessDone(key, cache, inFlight) == key \in cache

\* if (AUTO_BINDING_CACHE.has(key) || AUTO_BINDING_IN_FLIGHT.has(key)) return
SkipsBinding(key, cache, inFlight) == key \in cache \/ key \in inFlight

\* nextConfig: the config loaded at the start of the call, plus the agent
\* entry and the binding of the sender (agentId is the sender id)
NextConfig(currentConfig, sender) ==
    ConfigFile(currentConfig.bindings \cup { sender }, currentConfig.agents \cup { sender })

\* persistFeishuSenderBinding is called (void, from handleFeishuMessage) for
\* an admitted event of the sender: everything up to the first await
Persist(sender) ==
    /\ bLoad # << >>
    /\ Len(bCalls) < bLoad[1]
    /\ IF SkipsBinding(sender, bCache, bInFlight)
       THEN /\ bCalls' = Append(bCalls, BindingCall(sender, "done", << >>, "skipped"))
            /\ UNCHANGED << bCache, bInFlight >>
       ELSE IF sender \in bFile.bindings
       THEN \* a binding exists: done, and finally leaves the in-flight set
            /\ bCalls' = Append(bCalls, BindingCall(sender, "done", bFile, "existing"))
            /\ bCache' = bCache \cup { sender }
            /\ UNCHANGED bInFlight
       ELSE /\ bCalls' = Append(bCalls, BindingCall(sender, "mkdir", bFile, "none"))
            /\ bInFlight' = bInFlight \cup { sender }
            /\ UNCHANGED bCache
    /\ UNCHANGED << outsideBinding, bLoad, bFile, bWrites >>

\* the three fs.mkdir calls settle: all resolved (ok), then writeConfigFile is
\* called; or one rejected, which is logged and returns
MkdirSettles(i, ok) ==
    /\ bCalls[i].pc = "mkdir"
    /\ IF ok
       THEN /\ bCalls' = [ bCalls EXCEPT ![i].pc = "writing" ]
            /\ UNCHANGED bInFlight
       ELSE /\ bCalls' = [ bCalls EXCEPT ![i].pc = "done", ![i].outcome = "mkdir failed" ]
            /\ bInFlight' = bInFlight \ { bCalls[i].sender }
    /\ UNCHANGED << outsideBinding, bLoad, bFile, bCache, bWrites >>

\* writeConfigFile(nextConfig) settles: the file is replaced and the key is
\* done (ok), or the rejection is caught and logged; finally the key leaves
\* the in-flight set
WriteSettles(i, ok) ==
    /\ bCalls[i].pc = "writing"
    /\ bInFlight' = bInFlight \ { bCalls[i].sender }
    /\ IF ok
       THEN /\ bFile' = NextConfig(bCalls[i].currentConfig, bCalls[i].sender)
            /\ bCache' = bCache \cup { bCalls[i].sender }
            /\ bWrites' = [ bWrites EXCEPT ![bCalls[i].sender] = @ + 1 ]
            /\ bCalls' = [ bCalls EXCEPT ![i].pc = "done", ![i].outcome = "saved" ]
       ELSE /\ bCalls' = [ bCalls EXCEPT ![i].pc = "done", ![i].outcome = "write failed" ]
            /\ UNCHANGED << bFile, bCache, bWrites >>
    /\ UNCHANGED << outsideBinding, bLoad >>

NextBinding ==
    \/ \E s \in BindingSenders : Persist(s)
    \/ \E i \in 1 .. Len(bCalls), ok \in BOOLEAN : MkdirSettles(i, ok)
    \/ \E i \in 1 .. Len(bCalls), ok \in BOOLEAN : WriteSettles(i, ok)

\* a process that starts with empty sets; the stored config has no feishu
\* binding, or one that an earlier process wrote
InitBinding ==
    /\ SupervisorUnused
    /\ PolicyIdle
    /\ HandlerIdle
    /\ DeliveryIdle
    /\ ReplyIdle
    /\ InboundIdle
    /\ bLoad = << MaxBindingCalls >>
    /\ \E b \in { {}, { "ou_1" } } : bFile = ConfigFile(b, b)
    /\ bCache = {} /\ bInFlight = {}
    /\ bCalls = << >>
    /\ bWrites = [ s \in BindingSenders |-> 0 ]

SpecBinding == InitBinding /\ [][NextBinding]_vars

\* the calls for the sender that are between loadConfig and the end of writeConfigFile
BetweenLoadAndWrite(sender) ==
    { i \in 1 .. Len(bCalls) : bCalls[i].sender = sender /\ bCalls[i].pc \in { "mkdir", "writing" } }

\* C24: for every key, at most one call of persistFeishuSenderBinding is
\* between loading and writing the config at a time, and once one has
\* written the config successfully no call for that key is under way or
\* writes again
C24_BindingWriteDeduplicated ==
    \A s \in BindingSenders :
        /\ Cardinality(BetweenLoadAndWrite(s)) <= 1
        /\ bWrites[s] <= 1
        /\ s \in bCache => BetweenLoadAndWrite(s) = {}
        /\ bInFlight = { x \in BindingSenders : BetweenLoadAndWrite(x) # {} }

\* three calls for one sender: the first saved the binding, the second came
\* while the first was in flight and the third after it was done; one write
C24_Witness ==
    /\ Len(bCalls) >= 3
    /\ bCalls[1].sender = "ou_2" /\ bCalls[2].sender = "ou_2" /\ bCalls[3].sender = "ou_2"
    /\ bCalls[1].outcome = "saved"
    /\ bCalls[2].outcome = "skipped" /\ bCalls[3].outcome = "skipped"
    /\ bWrites["ou_2"] = 1

\* every call has returned
AllBindingCallsDone == \A i \in 1 .. Len(bCalls) : bCalls[i].pc = "done"

\* C25: once the binding writes have completed, the stored config holds an
\* agents.list entry and a binding for every sender that is marked done
C25_EveryDoneSenderStored ==
    AllBindingCallsDone =>
        \A s \in bCache : s \in bFile.bindings /\ s \in bFile.agents

----------------------------------------------------------------------------
(* Part 5: deliverFeishuReply (part_001), sendChunkedText and sendTextFeishu *)

\* a reply has at most MaxChunks chunks
MaxChunks == 3

\* sendList: every chunk is text or, once trimmed, empty
ChunkLists == UNION { [ 1 .. n -> { "text", "blank" } ] : n \in 1 .. MaxChunks }

\* a call of deliverFeishuReply or sendChunkedText
DeliveryCall(via, chunks, accountConfigured, onBeforeSend, signal) ==
    [ via |-> via, chunks |-> chunks, configured |-> accountConfigured,
      onBeforeSend |-> onBeforeSend, signal |-> signal ]

\* the status surface: lastError is "null" or an error message
Status(lastError, lastOutboundAt) == [ lastError |-> lastError, lastOutboundAt |-> lastOutboundAt ]

\* sendTextFeishu before it calls im.message.create: the error it throws, or "none"
sendTextFeishuThrows(signalAborted, accountConfigured, blank) ==
    IF signalAborted THEN "Feishu send aborted"
    ELSE IF ~accountConfigured THEN "not configured"
    ELSE IF blank THEN "requires non-empty text"
    ELSE "none"

\* the first chunk from k on that is not skipped (if (!body) continue), 0 = none
NextChunk(chunks, k) ==
    LET rest == { n \in k .. Len(chunks) : chunks[n] = "text" }
    IN  IF rest = {} THEN 0 ELSE CHOOSE n \in rest : \A m \in rest : n <= m

\* mutant: the catch block does not patch the status
deliverCatchSilent(status, message) == status

\* catch (err) { statusSink?.({ lastError: message }); ...; throw err }
deliverCatch(status, message) == [ status EXCEPT !.lastError = message ]

\* statusSink({ lastOutboundAt }) of sendTextFeishu, then
\* statusSink?.({ lastOutboundAt: Date.now(), lastError: null })
deliverSent(status) == Status("null", TRUE)

\* mutant: a failed chunk is logged and the loop goes on
RethrowsNever(via) == FALSE

\* throw err in the catch block of deliverFeishuReply; sendChunkedText has no catch
Rethrows(via) == TRUE

\* the call rejects with the error err
DeliveryFails(err, log, status) ==
    /\ dPc' = "done"
    /\ dLog' = log
    /\ dStatus' = IF dCall.via = "deliverFeishuReply" THEN deliverCatch(status, err) ELSE status
    /\ dResult' = << "rejected", err >>
    /\ UNCHANGED dActivity

\* the for loop from chunk k on, up to the next await or the return
DeliveryLoop(k, log, status) ==
    LET n == NextChunk(dCall.chunks, k)
        err == sendTextFeishuThrows(dCall.signal /\ dAborted, dCall.configured, FALSE)
    IN  IF n = 0
        THEN /\ dPc' = "done"
             /\ dLog' = log
             /\ dStatus' = status
             /\ dResult' = << "resolved" >>
             /\ dActivity' = IF dCall.via = "deliverFeishuReply" THEN dActivity + 1 ELSE dActivity
        ELSE IF err # "none"
        THEN DeliveryFails(err, log, status)
        ELSE /\ dPc' = "sending"
             /\ dLog' = Append(log, [ chunk |-> n, result |-> "pending" ])
             /\ dStatus' = status
             /\ UNCHANGED << dResult, dActivity >>

\* the function is called: up to its first await
DeliveryEnter ==
    /\ dPc = "call"
    /\ IF dCall.via = "sendChunkedText" /\ ~dCall.configured
       THEN /\ dPc' = "done" /\ dResult' = << "rejected", "not configured" >>
            /\ UNCHANGED << dLog, dStatus, dActivity >>
       ELSE IF dCall.onBeforeSend
       THEN /\ dPc' = "beforeSend"
            /\ UNCHANGED << dLog, dStatus, dActivity, dResult >>
       ELSE DeliveryLoop(1, dLog, dStatus)
    /\ UNCHANGED << outsideDelivery, dCall, dAborted >>

\* await onBeforeSend?.() returns
BeforeSendReturns ==
    /\ dPc = "beforeSend"
    /\ DeliveryLoop(1, dLog, dStatus)
    /\ UNCHANGED << outsideDelivery, dCall, dAborted >>

\* im.message.create of the chunk sent last settles
SendSettles(ok) ==
    /\ dPc = "sending"
    /\ LET n == dLog[Len(dLog)].chunk
           log == [ dLog EXCEPT ![Len(dLog)].result = IF ok THEN "ok" ELSE "failed" ]
       IN  IF ok
           THEN DeliveryLoop(n + 1, log,
                             IF dCall.via = "deliverFeishuReply" THEN deliverSent(dStatus)
                             ELSE dStatus)
           ELSE IF Rethrows(dCall.via)
           THEN DeliveryFails("transport error", log, dStatus)
           ELSE DeliveryLoop(n + 1, log, dStatus)
    /\ UNCHANGED << outsideDelivery, dCall, dAborted >>

\* the signal passed to sendChunkedText is aborted
SignalAborts ==
    /\ dPc \in { "call", "sending" }
    /\ dCall.signal /\ ~dAborted
    /\ dAborted' = TRUE
    /\ UNCHANGED << outsideDelivery, dCall, dPc, dLog, dStatus, dActivity, dResult >>

NextDelivery ==
    \/ DeliveryEnter
    \/ BeforeSendReturns
    \/ \E ok \in BOOLEAN : SendSettles(ok)
    \/ SignalAborts

\* one call: deliverFeishuReply (no signal; with or without onBeforeSend;
\* with or without an earlier lastError) or sendChunkedText (with or without
\* a signal), for every chunk list and a configured or unconfigured account
InitDelivery ==
    /\ SupervisorUnused
    /\ PolicyIdle
    /\ HandlerIdle
    /\ BindingIdle
    /\ ReplyIdle
    /\ InboundIdle
    /\ dPc = "call" /\ dAborted = FALSE /\ dLog = << >> /\ dActivity = 0 /\ dResult = << >>
    /\ \E c \in ChunkLists, conf \in BOOLEAN, x \in BOOLEAN, e \in { "null", "earlier error" } :
         \/ dCall = DeliveryCall("deliverFeishuReply", c, conf, x, FALSE) /\ dStatus = Status(e, FALSE)
         \/ dCall = DeliveryCall("sendChunkedText", c, conf, FALSE, x) /\ dStatus = Status(e, FALSE)

SpecDelivery == InitDelivery /\ [][NextDelivery]_vars

\* C27: the chunks of one reply are sent one after the other in their
\* order: a chunk is sent only after every chunk sent before it has
\* completed successfully, and after a chunk's send has failed no later
\* chunk is sent and the call rejects
C27_ChunksSequentialInOrder ==
    /\ \A k \in 1 .. Len(dLog) :
         /\ dCall.chunks[dLog[k].chunk] = "text"
         /\ k < Len(dLog) => dLog[k].result = "ok" /\ dLog[k].chunk < dLog[k + 1].chunk
         \* no text chunk in between was left out
         /\ \A n \in 1 .. dLog[k].chunk - 1 :
              dCall.chunks[n] = "text" => \E j \in 1 .. k - 1 : dLog[j].chunk = n
    /\ dLog # << >> /\ dLog[Len(dLog)].result = "pending" => dPc = "sending"
    /\ dLog # << >> /\ dLog[Len(dLog)].result = "failed" =>
         dPc = "done" /\ dResult = << "rejected", "transport error" >>
    /\ dResult = << "resolved" >> =>
         \A n \in 1 .. Len(dCall.chunks) :
             dCall.chunks[n] = "text" => \E k \in 1 .. Len(dLog) : dLog[k].chunk = n /\ dLog[k].result = "ok"

\* of three text chunks the first was sent, the second failed, the third was never sent
C27_Witness ==
    /\ dCall.chunks = << "text", "text", "text" >>
    /\ Len(dLog) = 2
    /\ dLog[1].result = "ok" /\ dLog[2].result = "failed"
    /\ dPc = "done"

\* the error the call of deliverFeishuReply rejected with, << >> = none
DeliveryError == IF Len(dResult) = 2 THEN << dResult[2] >> ELSE << >>

\* C28: when the send of a chunk fails, deliverFeishuReply patches lastError
\* with the message of the error and rejects with that error; a chunk that
\* was sent patches lastOutboundAt and clears lastError
C28_DeliveryFailureSurfaced ==
    dCall.via = "deliverFeishuReply" =>
        /\ dLog # << >> /\ dLog[Len(dLog)].result = "failed" =>
             dResult = << "rejected", "transport error" >>
        /\ DeliveryError # << >> => dPc = "done" /\ dStatus.lastError = DeliveryError[1]
        /\ ~dCall.configured /\ dPc = "done" /\ NextChunk(dCall.chunks, 1) # 0 =>
             dResult = << "rejected", "not configured" >>
        /\ dLog # << >> /\ dLog[Len(dLog)].result = "ok" /\ DeliveryError = << >> =>
             dStatus.lastError = "null" /\ dStatus.lastOutboundAt
        /\ dResult = << "resolved" >> =>
             \A k \in 1 .. Len(dLog) : dLog[k].result = "ok"

\* the first chunk was sent and cleared an earlier lastError, the second
\* failed: lastError holds the transport error and the call rejected with it
C28_Witness ==
    /\ dCall.via = "deliverFeishuReply"
    /\ Len(dLog) = 2 /\ dLog[1].result = "ok" /\ dLog[2].result = "failed"
    /\ dStatus = Status("transport error", TRUE)
    /\ dResult = << "rejected", "transport error" >>

----------------------------------------------------------------------------
(* Part 6: handleFeishuMessage behind the admission: the acknowledgment  *)
(* (status reaction or status text), the dispatch to the agent runtime   *)
(* and the deliveries it makes.                                          *)

\* the dispatcher delivers at most MaxReplies payloads for one message
MaxReplies == 2
\* and calls onReplyStart at most MaxReplyStarts times
MaxReplyStarts == 2

\* the handler of an admitted event.  mode: replyStatusReaction is set
\* ("reaction"), else replyStatusText is set ("text"), else "none"
ReplyHandler(mode, hasMessageId, binds) ==
    [ mode |-> mode,                  \* which acknowledgment is configured
      hasMessageId |-> hasMessageId,  \* inboundMessageId is not empty
      binds |-> binds,                \* routeBySenderId and the route matched by fallback
      pc |-> "call",                  \* position of handleFeishuMessage
      binding |-> "none",             \* void persistFeishuSenderBinding(...)
      add |-> "none",                 \* replyStatusReactionPromise: none, pending, id, null
      adds |-> 0,                     \* addReactionFeishu calls
      cleared |-> FALSE,              \* replyStatusCleared
      clear |-> "none",               \* the clearReplyStatusReactionOnce call that passed the flag
      clearBy |-> "none",             \* who called it: deliver, onError, final
      deletes |-> 0,                  \* deleteReactionFeishu calls
      text |-> "none",                \* ensureReplyStatusText: none, pending, sent, failed
      texts |-> 0,                    \* sendTextFeishu calls for the status text
      dispatch |-> "none",            \* dispatchReplyFromConfig: none, running, resolved, rejected
      deliver |-> "none",             \* the deliver call in progress: none, beforeSend, sending
      deliveries |-> 0,               \* deliver calls that have settled
      starts |-> 0,                   \* onReplyStart calls of the dispatcher
      failed |-> {} ]                 \* the side effects that failed

\* mutant: only the reaction id is looked at, not the promise of the add
ensureReplyStatusReactionNoPromise(h) ==
    IF h.mode # "reaction" \/ ~h.hasMessageId THEN h
    ELSE IF h.add = "id" THEN h
    ELSE [ h EXCEPT !.add = "pending", !.adds = @ + 1 ]

\* ensureReplyStatusReaction()
ensureReplyStatusReaction(h) ==
    IF h.mode # "reaction" \/ ~h.hasMessageId THEN h
    ELSE IF h.add # "none" THEN h
    ELSE [ h EXCEPT !.add = "pending", !.adds = @ + 1 ]

\* ensureReplyStatusText()
ensureReplyStatusText(h) ==
    IF h.mode # "text" \/ h.text # "none" THEN h
    ELSE [ h EXCEPT !.text = "pending", !.texts = @ + 1 ]

\* clearReplyStatusReactionOnce(), called by "by", up to its first await or return
clearReplyStatusReactionOnce(h, by) ==
    IF h.cleared THEN h
    ELSE IF h.add = "id"
    THEN [ h EXCEPT !.cleared = TRUE, !.clear = "deleting", !.clearBy = by, !.deletes = @ + 1 ]
    ELSE IF h.add = "pending" THEN [ h EXCEPT !.cleared = TRUE, !.clear = "awaitAdd", !.clearBy = by ]
    ELSE [ h EXCEPT !.cleared = TRUE, !.clear = "finished", !.clearBy = by ]

\* mutant: a failed deleteReactionFeishu is not caught
DeleteFailureThrown(ok) == IF ok THEN "finished" ELSE "rejected"

\* try { await deleteReactionFeishu(...) } catch (err) { runtime.error(...) }
DeleteFailure(ok) == "finished"

\* the caller "by" awaits a clearReplyStatusReactionOnce call: it has returned
ClearReturned(h, by) == h.clearBy # by \/ h.clear = "finished"
ClearRejected(h, by) == h.clearBy = by /\ h.clear = "rejected"

\* the event is admitted: resolveAgentRoute, void persistFeishuSenderBinding,
\* up to await recordInboundSession
ReplyEnter ==
    /\ rs # << >> /\ rs.pc = "call"
    /\ rs' = [ rs EXCEPT !.pc = "recording", !.binding = IF rs.binds THEN "pending" ELSE "none" ]
    /\ UNCHANGED outsideReply

\* recordInboundSession returns: the closures and the dispatcher are set up,
\* the acknowledgment is started (void) and dispatchReplyFromConfig is called
RecordReturns ==
    /\ rs # << >> /\ rs.pc = "recording"
    /\ LET h == IF rs.mode = "reaction" THEN ensureReplyStatusReaction(rs)
                ELSE ensureReplyStatusText(rs)
       IN  rs' = [ h EXCEPT !.pc = "dispatching", !.dispatch = "running" ]
    /\ UNCHANGED outsideReply

\* the dispatcher calls onReplyStart: ensureReplyStatusReaction when a status
\* reaction is configured, else ensureReplyStatusText when a status text is,
\* else there is no onReplyStart
OnReplyStart ==
    /\ rs # << >> /\ rs.dispatch = "running" /\ rs.mode # "none"
    /\ rs.starts < MaxReplyStarts
    /\ LET h == IF rs.mode = "reaction" THEN ensureReplyStatusReaction(rs)
                ELSE ensureReplyStatusText(rs)
       IN  rs' = [ h EXCEPT !.starts = @ + 1 ]
    /\ UNCHANGED outsideReply

\* persistFeishuSenderBinding settles: it catches and logs its failures
BindingSettles(ok) ==
    /\ rs # << >> /\ rs.binding = "pending"
    /\ rs' = [ rs EXCEPT !.binding = IF ok THEN "saved" ELSE "failed",
                         !.failed = IF ok THEN @ ELSE @ \cup { "binding" } ]
    /\ UNCHANGED outsideReply

\* addReactionFeishu settles: the reaction id, or null when it failed (caught, logged)
AddSettles(ok) ==
    /\ rs # << >> /\ rs.add = "pending"
    /\ LET h == [ rs EXCEPT !.add = IF ok THEN "id" ELSE "null",
                            !.failed = IF ok THEN @ ELSE @ \cup { "add reaction" } ]
       IN  \* a clearReplyStatusReactionOnce that awaits the promise goes on
           rs' = IF h.clear # "awaitAdd" THEN h
                 ELSE IF ok THEN [ h EXCEPT !.clear = "deleting", !.deletes = @ + 1 ]
                 ELSE [ h EXCEPT !.clear = "finished" ]
    /\ UNCHANGED outsideReply

\* deleteReactionFeishu settles
DeleteSettles(ok) ==
    /\ rs # << >> /\ rs.clear = "deleting"
    /\ rs' = [ rs EXCEPT !.clear = DeleteFailure(ok),
                         !.failed = IF ok THEN @ ELSE @ \cup { "remove reaction" } ]
    /\ UNCHANGED outsideReply

\* sendTextFeishu of the status text settles: a failure is caught and logged
TextSettles(ok) ==
    /\ rs # << >> /\ rs.text = "pending"
    /\ rs' = [ rs EXCEPT !.text = IF ok THEN "sent" ELSE "failed",
                         !.failed = IF ok THEN @ ELSE @ \cup { "status text" } ]
    /\ UNCHANGED outsideReply

\* the dispatcher calls deliver(payload): deliverFeishuReply up to
\* await onBeforeSend?.(), which is clearReplyStatusReactionOnce when a
\* status reaction is configured
DeliverCalled ==
    /\ rs # << >> /\ rs.dispatch = "running" /\ rs.deliver = "none"
    /\ rs.deliveries < MaxReplies
    /\ rs' = IF rs.mode = "reaction"
             THEN [ clearReplyStatusReactionOnce(rs, "deliver") EXCEPT !.deliver = "beforeSend" ]
             ELSE [ rs EXCEPT !.deliver = "sending" ]
    /\ UNCHANGED outsideReply

\* await onBeforeSend() returns and the chunks are sent, or it rejects and
\* deliver rejects: onError
BeforeSendSettles ==
    /\ rs # << >> /\ rs.deliver = "beforeSend"
    /\ ClearReturned(rs, "deliver") \/ ClearRejected(rs, "deliver")
    /\ rs' = IF ClearReturned(rs, "deliver") THEN [ rs EXCEPT !.deliver = "sending" ]
             ELSE [ clearReplyStatusReactionOnce(rs, "onError") EXCEPT
                      !.deliver = "none", !.deliveries = @ + 1 ]
    /\ UNCHANGED outsideReply

\* deliverFeishuReply settles: resolved (ok), or rejected and the
\* dispatcher calls onError, which clears the status reaction (void)
DeliverSettles(ok) ==
    /\ rs # << >> /\ rs.deliver = "sending"
    /\ LET h == [ rs EXCEPT !.deliver = "none", !.deliveries = @ + 1 ]
       IN  rs' = IF ~ok /\ rs.mode = "reaction" THEN clearReplyStatusReactionOnce(h, "onError")
                 ELSE h
    /\ UNCHANGED outsideReply

\* dispatchReplyFromConfig settles: resolved (ok), then the status reaction
\* is cleared and awaited; or rejected, and handleFeishuMessage rejects
DispatchSettles(ok) ==
    /\ rs # << >> /\ rs.dispatch = "running" /\ rs.deliver = "none"
    /\ rs' = IF ~ok THEN [ rs EXCEPT !.dispatch = "rejected", !.pc = "threw" ]
             ELSE IF rs.mode = "reaction"
             THEN [ clearReplyStatusReactionOnce(rs, "final") EXCEPT
                      !.dispatch = "resolved", !.pc = "clearing" ]
             ELSE [ rs EXCEPT !.dispatch = "resolved", !.pc = "done" ]
    /\ UNCHANGED outsideReply

\* await clearReplyStatusReactionOnce() behind the dispatch returns:
\* markDispatchIdle, return
FinalClearSettles ==
    /\ rs # << >> /\ rs.pc = "clearing"
    /\ ClearReturned(rs, "final") \/ ClearRejected(rs, "final")
    /\ rs' = [ rs EXCEPT !.pc = IF ClearReturned(rs, "final") THEN "done" ELSE "threw" ]
    /\ UNCHANGED outsideReply

NextReply ==
    \/ ReplyEnter
    \/ RecordReturns
    \/ OnReplyStart
    \/ \E ok \in BOOLEAN : BindingSettles(ok)
    \/ \E ok \in BOOLEAN : AddSettles(ok)
    \/ \E ok \in BOOLEAN : DeleteSettles(ok)
    \/ \E ok \in BOOLEAN : TextSettles(ok)
    \/ DeliverCalled
    \/ BeforeSendSettles
    \/ \E ok \in BOOLEAN : DeliverSettles(ok)
    \/ \E ok \in BOOLEAN : DispatchSettles(ok)
    \/ FinalClearSettles

\* one admitted event under every acknowledgment configuration
InitReply ==
    /\ SupervisorUnused
    /\ PolicyIdle
    /\ HandlerIdle
    /\ BindingIdle
    /\ DeliveryIdle
    /\ InboundIdle
    /\ \E m \in { "reaction", "text", "none" }, id \in BOOLEAN, b \in BOOLEAN :
         rs = ReplyHandler(m, id, b)

SpecReply == InitReply /\ [][NextReply]_vars

\* the handler has settled and nothing it started is under way
ReplyQuiescent ==
    /\ rs.pc \in { "done", "threw" }
    /\ rs.add # "pending" /\ rs.clear \notin { "awaitAdd", "deleting" }
    /\ rs.deliver = "none"

\* C26: for an admitted message on which the status reaction was added, the
\* reaction is removed with exactly one deleteReactionFeishu call, never two
\* and, once the handler has settled, never zero, whether the deliveries and
\* the dispatch succeed or fail
C26_ReactionClearedExactlyOnce ==
    /\ rs.deletes <= 1
    /\ ReplyQuiescent /\ rs.add = "id" => rs.deletes = 1

\* what holds of the code: never two deleteReactionFeishu calls, and exactly
\* one when the reaction was added and dispatchReplyFromConfig did not reject
C26_ClearedOnceUnlessDispatchThrows ==
    /\ rs.deletes <= 1
    /\ ReplyQuiescent /\ rs.add = "id" /\ rs.dispatch = "resolved" => rs.deletes = 1

\* C29: a failed side effect of an admitted message (persisting the sender
\* binding, adding or removing the status reaction, sending the status text)
\* is absorbed: the message is dispatched to the agent all the same, the
\* handler rejects only when the dispatch itself rejects, and it returns
\* when the dispatch resolved
C29_SideEffectFailuresAbsorbed ==
    /\ rs.pc = "threw" => rs.dispatch = "rejected"
    /\ rs.pc \in { "dispatching", "clearing", "done" } => rs.dispatch \in { "running", "resolved" }
    /\ rs.dispatch = "resolved" /\ ReplyQuiescent => rs.pc = "done"

\* the handler returned after the dispatch although persisting the binding
\* and removing the status reaction both failed
C29_Witness ==
    /\ rs.pc = "done" /\ rs.dispatch = "resolved"
    /\ { "binding", "remove reaction" } \subseteq rs.failed

\* the same with a status reaction that could not be added
C29_WitnessAdd == rs.pc = "done" /\ "add reaction" \in rs.failed

\* the same with a status text that could not be sent
C29_WitnessText == rs.pc = "done" /\ "status text" \in rs.failed

----------------------------------------------------------------------------
(* Part 7: the "im.message.receive_v1" callback of monitorFeishuProvider *)
(* together with the handleFeishuMessage promises it starts, beside the  *)
(* connection supervisor of part 1.                                      *)

\* at most MaxInFlight events arrive
MaxInFlight == 2
\* the supervisor is observed for its idle timeout plus this many seconds
InboundSlack == 5
\* at most this many connects fail beside the handlers
InboundFailures == 1

\* a handleFeishuMessage promise has not settled
HandlerRunning(handlers) == \E i \in 1 .. Len(handlers) : handlers[i].pc = "running"

\* mutant: the callback awaits the handler, and the transport the callback
CallbackPendingWhileHandling(handlers) == HandlerRunning(handlers)

\* void handleFeishuMessage(...).catch(...): the callback returns undefined
\* at once, the transport has nothing to wait for
CallbackPending(handlers) == FALSE

\* .catch((err) => { statusSink?.({ lastError: String(err) }); runtime.error?.(...) })
handlerCatch(i) ==
    [ inb EXCEPT !.handlers[i].pc = "rejected", !.lastErrors = @ + 1, !.errorLogs = @ + 1 ]

\* mutant: the callback does not look at the shutdown
CallbackIgnoresNever(s) == FALSE

\* if (stopped || abortSignal.aborted) return;
CallbackIgnores(s) == s.stopped \/ s.aborted

\* the "im.message.receive_v1" callback, whole: nothing when stopped or
\* aborted, else lastInboundAt = Date.now(), statusSink({ lastInboundAt }),
\* and handleFeishuMessage is started and not awaited
InboundCallback ==
    /\ handlerRegistered
    /\ clientsCreated > 0
    /\ inb # << >> /\ Len(inb.handlers) < MaxInFlight
    /\ ~CallbackPending(inb.handlers)
    /\ IF CallbackIgnores(S)
       THEN /\ Set(S)
            /\ inb' = [ inb EXCEPT !.returnedEarly = TRUE ]
       ELSE /\ Set([ S EXCEPT !.lastInboundAt = now ])
            /\ inb' = [ inb EXCEPT
                 !.handlers = Append(@, [ pc |-> "running", at |-> now, tickAt |-> nextTickAt,
                                          behind |-> HandlerRunning(@) ]),
                 !.inboundPatches = @ + 1 ]
    /\ UNCHANGED << configured, cfgIdle, cfgWatchdog, horizon, failLimit, fineLimit,
                    outsideInbound, fineSteps, now, mainPc, onAbortRegistered,
                    handlerRegistered, abortedAtCall, idleRequests, failures >>

\* the promise of one handleFeishuMessage call settles: resolved (ok), or
\* rejected, which the callback's catch records
HandlerSettles(i, ok) ==
    /\ inb # << >>
    /\ i \in 1 .. Len(inb.handlers) /\ inb.handlers[i].pc = "running"
    /\ inb' = IF ok THEN [ inb EXCEPT !.handlers[i].pc = "resolved" ] ELSE handlerCatch(i)
    /\ UNCHANGED << supervisorVars, outsideInbound >>

NextInbound ==
    \/ Enter
    \/ StartupDone
    \/ MainReturn
    \/ Abort
    \/ WatchdogTick
    \/ InboundCallback
    \/ \E i \in 1 .. MaxInFlight, ok \in BOOLEAN : HandlerSettles(i, ok)
    \/ StartSettles("resolved")
    \/ StartSettles("rejected")
    \/ \E i \in 1 .. Len(bodies) : ClientStopDone(i)
    \/ \E i \in 1 .. Len(bodies) : SleepDone(i)
    \/ \E i \in 1 .. Len(bodies) : StartDone(i)
    \/ Advance

InitInbound ==
    /\ PolicyIdle
    /\ HandlerIdle
    /\ BindingIdle /\ DeliveryIdle /\ ReplyIdle
    /\ InitWith({ << <<60>>, <<20>> >> }, InboundSlack, InboundFailures, 0)
    /\ configured
    /\ inb = [ handlers |-> << >>, inboundPatches |-> 0, lastErrors |-> 0, errorLogs |-> 0,
               returnedEarly |-> FALSE ]

SpecInbound == InitInbound /\ [][NextInbound]_vars

\* the handlers that rejected
RejectedHandlers == { i \in 1 .. Len(inb.handlers) : inb.handlers[i].pc = "rejected" }

\* C30: the event callback does not wait for handleFeishuMessage: while a
\* handler is still running, a further event can be accepted and a due
\* watchdog tick can run, every accepted event has refreshed lastInboundAt,
\* and every handler failure was caught, recorded as lastError and logged
C30_FireAndForget ==
    /\ HandlerRunning(inb.handlers) /\ handlerRegistered /\ Len(inb.handlers) < MaxInFlight
          => ENABLED InboundCallback
    /\ HandlerRunning(inb.handlers) /\ watchdogTimer /\ now >= nextTickAt
          => ENABLED WatchdogTick
    /\ \A i \in 1 .. Len(inb.handlers) : inb.handlers[i].at <= lastInboundAt
    /\ inb.inboundPatches = Len(inb.handlers)
    /\ inb.lastErrors = Cardinality(RejectedHandlers)
    /\ inb.errorLogs = Cardinality(RejectedHandlers)

\* while the handler of the first event is still running, a watchdog tick
\* has run and a later event was accepted and refreshed lastInboundAt
C30_Witness ==
    /\ Len(inb.handlers) = 2
    /\ inb.handlers[1].pc = "running" /\ inb.handlers[2].behind
    /\ inb.handlers[1].tickAt > 0 /\ inb.handlers[2].tickAt > inb.handlers[1].tickAt
    /\ inb.handlers[2].at > inb.handlers[1].at /\ lastInboundAt = inb.handlers[2].at

\* a handler failed and the supervisor goes on
C30_WitnessFailure ==
    /\ RejectedHandlers # {} /\ inb.lastErrors > 0
    /\ mainPc = "waiting" /\ ~stopped /\ HandlerRunning(inb.handlers)

----------------------------------------------------------------------------
(* Part 8: computeBackoff as a function of the attempt and of the value   *)
(* Math.random() returns (SpecBackoff).                                    *)

\* Math.random() is drawn from {0, 1/JitterDen, .., (JitterDen-1)/JitterDen}
JitterDen == 8

\* the calls that are made: computeBackoff(WS_RECONNECT_POLICY, attempt)
InitBackoff ==
    /\ SupervisorUnused
    /\ HandlerIdle
    /\ LaterIdle
    /\ \E a \in 0 .. MaxAttempt, rn \in 0 .. (JitterDen - 1) :
         pIn = [ fn |-> "backoff", attempt |-> a, rn |-> rn ]
    /\ pOut = << >>

ApplyBackoff ==
    /\ pIn.fn = "backoff" /\ pOut = << >>
    /\ pOut' = << computeBackoffAt(pIn.attempt, pIn.rn, JitterDen) >>
    /\ UNCHANGED << supervisorVars, pIn, handlerVars, laterParts >>

NextBackoff == ApplyBackoff

SpecBackoff == InitBackoff /\ [][NextBackoff]_vars

\* initial * factor^(attempt-1) in tenths of a millisecond, as far as it
\* matters: exact up to the first value above maxMs
ExponentialTenths(attempt) == BaseTenths(Max(attempt - 1, 0))

\* Math.round(tenths * (1 + jitterFraction * rn / JitterDen) / 10)
Jittered(tenths, rn) ==
    (2 * tenths * (100 * JitterDen + jitterPercent * rn) + 1000 * JitterDen) \div (2000 * JitterDen)

\* C31 as claimed: the delay is min(maxMs, initial * factor^(attempt-1)) with
\* the jitter factor 1 + U(0, jitterFraction) applied on top of the capped
\* base (to the millisecond)
C31_AsClaimed ==
    Returned("backoff") =>
        pOut[1] = Jittered(Min(maxMs * 10, ExponentialTenths(pIn.attempt)), pIn.rn)

\* C31 (amended): the delay is min(maxMs, initial * factor^(attempt-1) *
\* (1 + U(0, jitterFraction))) to the millisecond: the jitter is applied to
\* the uncapped exponential base and the cap to the sum, so no delay exceeds
\* maxMs and every attempt whose base has reached maxMs waits exactly maxMs
C31_CapAfterJitter ==
    Returned("backoff") =>
        /\ pOut[1] = Min(maxMs, Jittered(ExponentialTenths(pIn.attempt), pIn.rn))
        /\ pOut[1] <= maxMs
        /\ ExponentialTenths(pIn.attempt) >= maxMs * 10 => pOut[1] = maxMs

\* an attempt whose base is above maxMs, with a jitter draw above zero
C31_Witness ==
    /\ Returned("backoff")
    /\ ExponentialTenths(pIn.attempt) > maxMs * 10 /\ pIn.rn > 0
    /\ pOut[1] = maxMs

----------------------------------------------------------------------------
(* Part 9: the connection supervisor over unbounded time.  The clock is  *)
(* relative: now stays 0 and the passing of d seconds moves every time   *)
(* stamp d seconds into the past; a stamp that is older than any         *)
(* comparison the code makes with it is kept at that age.  The counters  *)
(* that only record the history (clients created, restarts started, idle *)
(* requests) are not kept, so that a supervisor that restarts for ever   *)
(* has finitely many states.                                             *)

\* the transport start fails at most ProgressFailures times, then it succeeds
ProgressFailures == 1

\* the supervisor state without its history counters
Forget(s) ==
    [ s EXCEPT !.clientsCreated = IF @ > 0 THEN 1 ELSE 0,
               !.wsClient = IF @ # 0 THEN 1 ELSE 0,
               !.restartsStarted = 0 ]

\* the watchdog's setInterval callback
ProgressTick ==
    /\ watchdogTimer
    /\ now >= nextTickAt
    /\ \E rn \in RandomDraws :
         LET s1 == [ S EXCEPT !.nextTickAt = nextTickAt + watchdogIntervalSeconds ]
         IN  IF WatchdogFires(S, now)
             THEN Set(Forget(requestRestart(s1, "idle-timeout", rn, now)))
             ELSE Set(s1)
    /\ UNCHANGED << InputsAndSteps, now, mainPc, onAbortRegistered, handlerRegistered,
                    abortedAtCall, idleRequests, failures >>

\* restart body i: sleepWithAbort returns or throws "aborted"
ProgressSleepDone(i) ==
    /\ bodies[i].pc = "sleeping"
    /\ aborted \/ now >= bodies[i].wakeAt
    /\ \E rn \in RandomDraws :
         IF ProceedsAfterSleep(S)
         THEN Set(Forget([ startWsClientBegin(S, now) EXCEPT !.bodies[i].pc = "starting" ]))
         ELSE Set(Forget(RestartFinally(S, i, rn, now)))
    /\ UNCHANGED << InputsAndSteps, now, mainPc, onAbortRegistered, handlerRegistered,
                    abortedAtCall, idleRequests, failures >>

\* restart body i: the await of startWsClient returns; the body ends and .finally runs
ProgressStartDone(i) ==
    /\ bodies[i].pc = "starting"
    /\ StartOutcome(S, now) # "waiting"
    /\ \E rn \in RandomDraws :
         Set(Forget(RestartFinally(RestartBodyEnd(S, now), i, rn, now)))
    /\ UNCHANGED << InputsAndSteps, now, mainPc, onAbortRegistered, handlerRegistered,
                    abortedAtCall, idleRequests, failures >>

\* time passes: up to the next timer deadline, or by Grain seconds
Elapse ==
    /\ TimeMatters
    /\ ~Urgent
    /\ \E d \in { Grain } \cup { dl - now : dl \in Deadlines } :
         /\ d > 0
         /\ \A dl \in Deadlines : now + d <= dl
         /\ nextTickAt' = IF watchdogTimer THEN nextTickAt - d ELSE nextTickAt
         /\ bodies' = [ i \in 1 .. Len(bodies) |->
                          [ bodies[i] EXCEPT !.wakeAt = Max(@ - d, now) ] ]
         /\ lastInboundAt' = Max(lastInboundAt - d, now - idleTimeoutSeconds)
         /\ startedAt' = Max(startedAt - d, now - StartTimeoutSeconds)
    /\ UNCHANGED << InputsAndSteps, now, aborted, startPromise, clientsCreated, mainPc,
                    onAbortRegistered, handlerRegistered, stopped, wsClient, watchdogTimer,
                    reconnectAttempts, restartInFlight, restartQueued, connected, running,
                    abortedAtCall, delayMs, restartsStarted, idleRequests, failures >>

NextProgress ==
    \/ Enter
    \/ StartupDone
    \/ MainReturn
    \/ Abort
    \/ ProgressTick
    \/ InboundEvent
    \/ StartSettles("resolved")
    \/ StartSettles("rejected")
    \/ \E i \in 1 .. Len(bodies) : ClientStopDone(i)
    \/ \E i \in 1 .. Len(bodies) : ProgressSleepDone(i)
    \/ \E i \in 1 .. Len(bodies) : ProgressStartDone(i)
    \/ Elapse

\* a short and a longer idle timeout
ProgressConfigs == { << <<1>>, <<1>> >>, << <<6>>, <<2>> >> }

\* a configured account
InitProgress ==
    /\ PolicyIdle
    /\ HandlerIdle
    /\ LaterIdle
    /\ InitWith(ProgressConfigs, 0, ProgressFailures, 0)
    /\ configured

\* the event loop runs every continuation that is ready and every timer
\* that is due, time passes, and client.stop() settles
ProgressFairness ==
    /\ WF_vars(StartupDone)
    /\ WF_vars(MainReturn)
    /\ WF_vars(ProgressTick)
    /\ WF_vars(\E i \in 1 .. Len(bodies) : ClientStopDone(i))
    /\ WF_vars(\E i \in 1 .. Len(bodies) : ProgressSleepDone(i))
    /\ WF_vars(\E i \in 1 .. Len(bodies) : ProgressStartDone(i))
    /\ WF_vars(Elapse)

SpecProgress == InitProgress /\ [][NextProgress]_vars /\ ProgressFairness

----------------------------------------------------------------------------
(* Further claims about the connection supervisor *)

\* this step is the end of a restart body whose connect succeeded
ReconnectSuccessStep == ReconnectSucceeds /\ bodies' # bodies

\* C32: a successful reconnect leaves reconnectAttempts at 0 and lastInboundAt
\* at the reconnect time and starts no restart, also when watchdog ticks
\* fired while it was in flight; and a restart for the reason idle-timeout
\* only begins when the idle timeout has elapsed since lastInboundAt
C32_NoRestartBehindReconnect ==
    [][ /\ ReconnectSuccessStep
             => (reconnectAttempts' = 0 /\ lastInboundAt' = now /\ ~BodyStarts)
        /\ (BodyStarts /\ ~restartInFlight)
             => now - lastInboundAt >= idleTimeoutSeconds
      ]_vars

\* what holds of the code: the reconnect time is stored, and a restart begins
\* behind a successful reconnect exactly when a request was queued meanwhile
C32_RestartBehindReconnectIffQueued ==
    [][ ReconnectSuccessStep =>
          /\ lastInboundAt' = now
          /\ ~restartQueued /\ ~aborted /\ ~stopped => (reconnectAttempts' = 0 /\ ~BodyStarts)
          /\ restartQueued /\ ~aborted /\ ~stopped => (reconnectAttempts' = 1 /\ BodyStarts)
      ]_vars

\* this step is the return of a startWsClient call (initial connect or reconnect)
ConnectEndStep ==
    \/ mainPc = "startup" /\ mainPc' # "startup"
    \/ (\E i \in 1 .. Len(bodies) : bodies[i].pc = "starting") /\ bodies' # bodies

\* that call returned true: the caller goes on as connected (the initial
\* connect arms the watchdog and waits; the restart body resets the attempts,
\* which a restart queued meanwhile raises to 1 again)
ConnectReturnedTrue ==
    IF mainPc = "startup" THEN mainPc' = "waiting"
    ELSE reconnectAttempts' = 0 \/ (reconnectAttempts' = 1 /\ BodyStarts)

\* C33: a connect attempt returns as connected iff the transport start was
\* acknowledged or the 5 s timer fired while the start was still pending, it
\* returns as failed iff the start rejected, and no connect attempt waits
\* beyond 5 s after the start was called
C33_ConnectBoundedOptimistic ==
    [][ /\ Racing => now <= startedAt + StartTimeoutSeconds
        /\ ConnectEndStep =>
             /\ ConnectReturnedTrue <=>
                    \/ startPromise = "resolved"
                    \/ startPromise = "pending" /\ now = startedAt + StartTimeoutSeconds
             /\ ~ConnectReturnedTrue <=> startPromise = "rejected"
      ]_vars

\* the initial connect was taken as connected by the 5 s timer, the start
\* still pending
C33_Witness ==
    /\ mainPc = "waiting" /\ clientsCreated = 1
    /\ startPromise = "pending" /\ now = startedAt + StartTimeoutSeconds
    /\ connected

\* a reconnect was taken as connected by the 5 s timer
C33_WitnessReconnect ==
    /\ restartsStarted >= 1 /\ bodies = << >> /\ reconnectAttempts = 0
    /\ startPromise = "pending" /\ now = startedAt + StartTimeoutSeconds
    /\ connected

\* C35: a transport client is created (and started) only while wsClient is
\* null, that is after stop() or close() was invoked on the client created
\* before it, by the restart body or by the shutdown; wsClient refers to
\* the newest client or to none
C35_OneTransportSession ==
    [][ /\ wsClient \in { 0, clientsCreated }
        /\ clientsCreated' # clientsCreated
             => /\ clientsCreated' = clientsCreated + 1
                /\ wsClient = 0 /\ wsClient' = clientsCreated'
                /\ ~(\E i \in 1 .. Len(bodies) : bodies[i].pc = "stopping")
      ]_vars

\* a third client runs after a failed and a successful restart
C35_Witness ==
    /\ clientsCreated >= 3 /\ failures >= 1 /\ idleRequests >= 1
    /\ wsClient = clientsCreated /\ bodies = << >> /\ connected

\* C36: once stop has run, the status shows connected = false and
\* running = false and stays so, whatever connect or restart was in flight
C36_StatusDownAfterStop ==
    [][ /\ stopped => (~connected /\ ~running)
        /\ stopped => (stopped' /\ ~connected' /\ ~running')
      ]_vars

\* stop has run while the connect of a restart was in flight
C36_Witness ==
    /\ stopped /\ startPromise = "pending"
    /\ \E i \in 1 .. Len(bodies) : bodies[i].pc = "starting"

\* stop ran during the initial connect, which then succeeded
C36_WitnessStartup ==
    /\ stopped /\ mainPc = "returned" /\ clientsCreated = 1 /\ startPromise = "resolved"

\* C40: the queued flag only exists alongside a restart in flight: in every
\* state between two turns of the event loop in which no restart is in flight,
\* restartQueued is false, so no queued request is left behind that no restart
\* will consume.
C40_QueuedOnlyWhileInFlight ==
    (~restartInFlight \/ Len(bodies) = 0) => ~restartQueued

\* a second idle request met the only restart in flight and was queued; the
\* shutdown came before that restart ended, and its .finally dropped the flag
\* without starting a second restart
C40_Witness ==
    /\ stopped /\ ~restartInFlight /\ ~restartQueued
    /\ Len(bodies) = 0
    /\ idleRequests >= 2
    /\ restartsStarted = 1

\* the restart body ends in this step behind a transport start that failed
FailedReconnectStep ==
    /\ Len(bodies) = 1 /\ bodies[1].pc = "starting"
    /\ StartOutcome(S, now) = "failed"
    /\ bodies' # bodies

\* the supervisor is connected and at rest
ReconnectedAtRest ==
    /\ connected /\ reconnectAttempts = 0
    /\ ~restartInFlight /\ ~restartQueued

\* C38: reconnection makes progress: while the supervisor is not shut down, a
\* reconnect attempt whose transport start fails is followed by another attempt
\* with reconnectAttempts increased by one; and, the transport start failing
\* only finitely often, a restart in flight leads to a state with connected
\* true, reconnectAttempts 0, no restart in flight and none queued.
C38_ReconnectionMakesProgress ==
    /\ [][ FailedReconnectStep /\ ~stopped /\ ~aborted
             => /\ restartInFlight' /\ ~restartQueued'
                /\ Len(bodies') = 1 /\ bodies'[1].reason = "retry"
                /\ reconnectAttempts' = reconnectAttempts + 1 ]_vars
    /\ restartInFlight ~> (ReconnectedAtRest \/ stopped \/ aborted)

----------------------------------------------------------------------------
(* Further claims about the admission *)

\* C34: a direct message is never dropped because of the configured room
\* entries: neither as not allow-listed nor as disabled, whether its chat
\* has no entry, a disabled entry, or falls back to a disabled "*" entry
C34_RoomsDoNotDropDirectMessages ==
    \A i \in DirectMessages : hs[i].outcome \notin { "drop: not allowlisted", "drop: disabled" }

\* what holds of the code: a direct message is never dropped as not
\* allow-listed, and it is dropped as disabled exactly when its own entry,
\* or without one the "*" entry, has enabled = false
C34_DirectMessageDroppedIffDisabled ==
    \A i \in DirectMessages :
        /\ hs[i].outcome # "drop: not allowlisted"
        /\ hs[i].pc = "done" =>
             (hs[i].outcome = "drop: disabled" <=>
                 LET c == resolveFeishuChatMatch(acct.chats).chatConfig
                 IN  c # << >> /\ c[1].enabled = "false")

----------------------------------------------------------------------------
(* Further claims about the acknowledgment *)

\* C39: for one admitted message the acknowledgment is issued at most once:
\* addReactionFeishu is called at most once, however often onReplyStart fires
\* and whether or not the add raced with the clear; deleteReactionFeishu is
\* only called after that add has returned a reaction id; the status text is
\* sent at most once, and never when a status reaction is configured.
C39_AcknowledgedAtMostOnce ==
    /\ rs.adds <= 1
    /\ rs.mode # "reaction" => rs.adds = 0 /\ rs.deletes = 0
    /\ rs.deletes > 0 => rs.adds = 1 /\ rs.add = "id"
    /\ rs.clear = "deleting" => rs.add = "id"
    /\ rs.texts <= 1
    /\ rs.mode = "reaction" => rs.texts = 0 /\ rs.text = "none"

\* onReplyStart has fired twice while the clear of the first delivery waits
\* for the one add that is still under way
C39_Witness ==
    /\ rs.mode = "reaction" /\ rs.starts = MaxReplyStarts
    /\ rs.add = "pending" /\ rs.adds = 1
    /\ rs.clear = "awaitAdd" /\ rs.clearBy = "deliver"

\* the reaction was added once and removed once although onReplyStart fired again
C39_WitnessCleared ==
    /\ rs.mode = "reaction" /\ rs.starts = MaxReplyStarts
    /\ rs.adds = 1 /\ rs.deletes = 1 /\ rs.pc = "done"

\* the status text was sent once although onReplyStart fired twice
C39_WitnessText ==
    /\ rs.mode = "text" /\ rs.starts = MaxReplyStarts
    /\ rs.texts = 1 /\ rs.text = "sent" /\ rs.pc = "done"

----------------------------------------------------------------------------
(* Further claims about the event callback *)

\* C37: an event that arrives once stopped is set or the abort is signalled
\* is ignored: no handleFeishuMessage call is started for it, and
\* lastInboundAt and the status (lastInboundAt patch, lastError, connected,
\* running) are left as they are
C37_EventAfterShutdownIgnored ==
    [][ /\ Len(inb'.handlers) > Len(inb.handlers) => (~stopped /\ ~aborted)
        /\ inb'.inboundPatches > inb.inboundPatches => (~stopped /\ ~aborted)
        /\ (inb'.returnedEarly /\ ~inb.returnedEarly)
             => /\ stopped \/ aborted
                /\ inb'.handlers = inb.handlers
                /\ inb'.inboundPatches = inb.inboundPatches
                /\ inb'.lastErrors = inb.lastErrors
                /\ UNCHANGED << lastInboundAt, connected, running >>
      ]_vars

\* an event was ignored after the shutdown, with an earlier handler still running
C37_Witness ==
    /\ inb.returnedEarly /\ stopped /\ aborted
    /\ HandlerRunning(inb.handlers)

====
